---------------------------- MODULE Spec2Model ----------------------------
(***************************************************************************)
(* A model of the YT-Downloader backend:                                   *)
(*   - utils/cache.py          CacheManager (TTL + capacity bounded cache) *)
(*   - main.py                 /api/smart-download (acquisition and merge)  *)
(*   - services/*.py           download_stream, merge_video_audio,         *)
(*                             smart_select_best_option                    *)
(* Each subsystem has its own specification (SpecCache, SpecDownload,      *)
(* SpecSelect); the variables of the other subsystems stay unchanged.      *)
(***************************************************************************)
EXTENDS Integers, Sequences, FiniteSets, TLC

VARIABLES
    \* ---- CacheManager (utils/cache.py) ----
    cache,      \* self._cache: the dict, as the sequence of its entries in dict order
    stats,      \* self._stats
    lock,       \* self._lock: NoThread when free, else the thread that holds it
    tpc,        \* per thread: where it is inside a CacheManager method
    now,        \* time.time()
    ret,        \* the last completed call: [op, key, value, log (its logger.debug lines)]
    calls,      \* number of completed get and set calls
    run,        \* the keys set so far, while the run is only sets of new keys
    lastHit,    \* the key of the most recent get that hit, NoKey before the first
    \* ---- POST /api/smart-download (main.py smart_download) ----
    endpoint,   \* the endpoint called: "smart-download" or "download"
    dpc,        \* where the handler is
    plan,       \* smart_option['type'], or NoPlan
    ffmpeg,     \* ffmpeg_service.is_available()
    temp_dir,   \* the handler's temp_dir: TRUE once create_temp_merge_dir returned
    ws,         \* the workspace: [exists, files]
    video,      \* the video transfer (download_video): its state
    audio,      \* the audio transfer (download_audio): its state
    order,      \* the transfers that reached a terminal state, in that order
    tool,       \* the merge tool: [calls, state, alive]
    outcome,    \* what the caller got: [kind, via, cause]
    gen,        \* the generator iterfile() handed to StreamingResponse
    \* ---- smart_select_best_option (services/smart_selection.py) ----
    streams,    \* what analyze_streams returned, and prefer_progressive
    selection,  \* what smart_select_best_option returned, or NotCalled
    \* ---- calculate_video_quality_score / calculate_audio_quality_score ----
    subject,    \* two streams of one kind, to be scored: [kind, a, b]
    scores,     \* their scores: [done, a, b]
    \* ---- analyze_streams (services/smart_selection.py) ----
    yt,         \* what yt.streams.filter gives for each category, and where
                \* the enumeration raises, if it does
    analysis,   \* what analyze_streams returned: [done, progressive, video, audio]
    \* ---- get_fast_smart_selection (main.py) ----
    asset,      \* the streams of the video, as analyze_streams gives them
    vcache,     \* video_cache: the analysis cached for the video, or NoneRecord
    fast,       \* the last call of get_fast_smart_selection and what came of it
    \* ---- VideoAnalysisCache writers (cache.py) ----
    dicts,      \* the dict objects: object -> [analysis, smart_selection], each the writer that set it
    stored,     \* the object the cache holds under "analysis:<video_id>", 0 for none
    wr,         \* the writer threads: [op, pc, ref (the dict the writer holds, 0 for none)]
    lastStore,  \* the writer whose cache_manager.set ran last, 0 for none
    \* ---- FFmpegService.merge_video_audio (ffmpeg_service.py) ----
    merge,      \* the call: [pc, available, cleanup_temp, inputs, code, result]
    mfs,        \* the files: [video, audio (exist), output (missing, empty, content)]
    \* ---- cleanup_all_caches (cache.py) ----
    vcm,        \* video_cache.cache_manager._cache
    gcm,        \* general_cache._cache
    ctime,      \* time.time()
    cleanup,    \* the call: [done, before (sizes), raised, results]
    \* ---- contact_endpoint (main.py) ----
    limiter,    \* _rate_limit_cache: client IP -> the timestamps recorded
    clock,      \* time.time()
    brevo_api_key,  \* os.getenv("BREVO_API_KEY") is set
    contact     \* the submissions: [submits, ip, code (of the last), refused (429s), accepted (times per IP)]

cacheVars == <<cache, stats, lock, tpc, now, ret, calls, run, lastHit>>

dlVars == <<endpoint, dpc, plan, ffmpeg, temp_dir, ws, video, audio, order, tool, outcome, gen>>

selVars == <<streams, selection>>

scoreVars == <<subject, scores>>

anVars == <<yt, analysis>>

fastVars == <<asset, vcache, fast>>

raceVars == <<dicts, stored, wr, lastStore>>

mergeVars == <<merge, mfs>>

cleanupVars == <<vcm, gcm, ctime, cleanup>>

contactVars == <<limiter, clock, brevo_api_key, contact>>

vars == <<cacheVars, dlVars, selVars, scoreVars, anVars, fastVars, raceVars, mergeVars, cleanupVars, contactVars>>

\* what a step of one subsystem leaves alone
notCacheVars == <<dlVars, selVars, scoreVars, anVars, fastVars, raceVars, mergeVars, cleanupVars, contactVars>>
notDlVars == <<cacheVars, selVars, scoreVars, anVars, fastVars, raceVars, mergeVars, cleanupVars, contactVars>>
notSelVars == <<cacheVars, dlVars, scoreVars, anVars, fastVars, raceVars, mergeVars, cleanupVars, contactVars>>
notScoreVars == <<cacheVars, dlVars, selVars, anVars, fastVars, raceVars, mergeVars, cleanupVars, contactVars>>
notAnVars == <<cacheVars, dlVars, selVars, scoreVars, fastVars, raceVars, mergeVars, cleanupVars, contactVars>>
notFastVars == <<cacheVars, dlVars, selVars, scoreVars, anVars, raceVars, mergeVars, cleanupVars, contactVars>>
notRaceVars == <<cacheVars, dlVars, selVars, scoreVars, anVars, fastVars, mergeVars, cleanupVars, contactVars>>
notMergeVars == <<cacheVars, dlVars, selVars, scoreVars, anVars, fastVars, raceVars, cleanupVars, contactVars>>
notCleanupVars == <<cacheVars, dlVars, selVars, scoreVars, anVars, fastVars, raceVars, mergeVars, contactVars>>
notContactVars == <<cacheVars, dlVars, selVars, scoreVars, anVars, fastVars, raceVars, mergeVars, cleanupVars>>

\* Python's None, as a return value
None == <<"None">>
\* no key: the key of a call that takes none
NoKey == 0

(***************************************************************************)
(* Bounds of the model                                                     *)
(***************************************************************************)
ttl == 2            \* CacheManager(ttl=...), scaled down
max_size == 2       \* CacheManager(max_size=...), scaled down
MaxTime == 3
MaxGets == 1
MaxCleanups == 1
MaxSets == max_size + 1     \* enough set calls to overflow the capacity

Keys == 1..(max_size + 1)   \* enough distinct keys to overflow the capacity
\* The payload of a set call is opaque to CacheManager; each call's payload
\* is tagged with the call's key and time, which tells payloads apart.
Payload(k, t) == <<"data", k, t>>
Threads == {"T1", "T2"}
NoThread == "free"

(***************************************************************************)
(* The dict self._cache: key -> {'timestamp', 'data'}, in insertion order  *)
(***************************************************************************)
Entry(k, ts, d) == [key |-> k, timestamp |-> ts, data |-> d]

HasKey(c, k) == \E i \in 1..Len(c) : c[i].key = k

IndexOf(c, k) == CHOOSE i \in 1..Len(c) : c[i].key = k

Lookup(c, k) == c[IndexOf(c, k)]

\* del self._cache[key]
DelKey(c, k) == SelectSeq(c, LAMBDA e : e.key # k)

\* self._cache[key] = {...}: an existing key keeps its place in the dict
PutKey(c, k, e) == IF HasKey(c, k) THEN [c EXCEPT ![IndexOf(c, k)] = e] ELSE Append(c, e)

KeysOf(c) == {c[i].key : i \in 1..Len(c)}

\* a mutant of OldestKey: the last key, in dict order, of greatest timestamp
NewestKey(c) ==
    LET i == CHOOSE j \in 1..Len(c) :
                 /\ \A m \in 1..Len(c) : c[j].timestamp >= c[m].timestamp
                 /\ \A m \in (j+1)..Len(c) : c[m].timestamp < c[j].timestamp
    IN  c[i].key

\* min(self._cache.keys(), key=timestamp): the first key, in dict order, of least timestamp
OldestKey(c) ==
    LET i == CHOOSE j \in 1..Len(c) :
                 /\ \A m \in 1..Len(c) : c[j].timestamp <= c[m].timestamp
                 /\ \A m \in 1..(j-1) : c[m].timestamp > c[j].timestamp
    IN  c[i].key

(***************************************************************************)
(* The methods of CacheManager, as functions of (cache, stats, time)       *)
(***************************************************************************)
\* one logger.debug / logger.info line of a method
Log(ev, k) == [ev |-> ev, key |-> k]

\* a mutant of _evict_oldest: the entry stored last is the one removed
_evict_newest(c, s) ==
    IF c = <<>>
    THEN [cache |-> c, stats |-> s, log |-> <<>>]
    ELSE [cache |-> DelKey(c, NewestKey(c)),
          stats |-> [s EXCEPT !.evictions = @ + 1],
          log |-> <<Log("EVICTED", NewestKey(c))>>]

_evict_oldest(c, s) ==
    IF c = <<>>
    THEN [cache |-> c, stats |-> s, log |-> <<>>]
    ELSE [cache |-> DelKey(c, OldestKey(c)),
          stats |-> [s EXCEPT !.evictions = @ + 1],
          log |-> <<Log("EVICTED", OldestKey(c))>>]

\* a mutant of get: the expired entry is left in the dict
get_keeps_expired(c, s, k, t) ==
    IF HasKey(c, k) /\ t - Lookup(c, k).timestamp < ttl
    THEN [cache |-> c, stats |-> [s EXCEPT !.hits = @ + 1],
          value |-> Lookup(c, k).data, log |-> <<Log("HIT", k)>>]
    ELSE [cache |-> c, stats |-> [s EXCEPT !.misses = @ + 1],
          value |-> None, log |-> <<Log("MISS", k)>>]

\* a mutant of get: the entry of age exactly ttl still counts as valid
get_off_by_one(c, s, k, t) ==
    IF HasKey(c, k)
    THEN IF t - Lookup(c, k).timestamp <= ttl
         THEN [cache |-> c, stats |-> [s EXCEPT !.hits = @ + 1],
               value |-> Lookup(c, k).data, log |-> <<Log("HIT", k)>>]
         ELSE [cache |-> DelKey(c, k), stats |-> [s EXCEPT !.misses = @ + 1],
               value |-> None, log |-> <<Log("EXPIRED", k), Log("MISS", k)>>]
    ELSE [cache |-> c, stats |-> [s EXCEPT !.misses = @ + 1],
          value |-> None, log |-> <<Log("MISS", k)>>]

\* a mutant of get: a hit refreshes the entry's timestamp
get_refreshes(c, s, k, t) ==
    IF HasKey(c, k)
    THEN IF t - Lookup(c, k).timestamp < ttl
         THEN [cache |-> [c EXCEPT ![IndexOf(c, k)].timestamp = t],
               stats |-> [s EXCEPT !.hits = @ + 1],
               value |-> Lookup(c, k).data, log |-> <<Log("HIT", k)>>]
         ELSE [cache |-> DelKey(c, k), stats |-> [s EXCEPT !.misses = @ + 1],
               value |-> None, log |-> <<Log("EXPIRED", k), Log("MISS", k)>>]
    ELSE [cache |-> c, stats |-> [s EXCEPT !.misses = @ + 1],
          value |-> None, log |-> <<Log("MISS", k)>>]

get(c, s, k, t) ==
    IF HasKey(c, k)
    THEN IF t - Lookup(c, k).timestamp < ttl
         THEN [cache |-> c, stats |-> [s EXCEPT !.hits = @ + 1],
               value |-> Lookup(c, k).data, log |-> <<Log("HIT", k)>>]
         ELSE [cache |-> DelKey(c, k), stats |-> [s EXCEPT !.misses = @ + 1],
               value |-> None, log |-> <<Log("EXPIRED", k), Log("MISS", k)>>]
    ELSE [cache |-> c, stats |-> [s EXCEPT !.misses = @ + 1],
          value |-> None, log |-> <<Log("MISS", k)>>]

\* a mutant of set: the capacity is not looked at
set_without_eviction(c, s, k, d, t) ==
    [cache |-> PutKey(c, k, Entry(k, t, d)),
     stats |-> [s EXCEPT !.stores = @ + 1],
     value |-> None, log |-> <<Log("STORED", k)>>]

set(c, s, k, d, t) ==
    LET e == IF Len(c) >= max_size THEN _evict_oldest(c, s)
                                   ELSE [cache |-> c, stats |-> s, log |-> <<>>]
    IN  [cache |-> PutKey(e.cache, k, Entry(k, t, d)),
         stats |-> [e.stats EXCEPT !.stores = @ + 1],
         value |-> None, log |-> Append(e.log, Log("STORED", k))]

delete(c, s, k) ==
    IF HasKey(c, k)
    THEN [cache |-> DelKey(c, k), stats |-> s, value |-> TRUE,
          log |-> <<Log("DELETED", k)>>]
    ELSE [cache |-> c, stats |-> s, value |-> FALSE, log |-> <<>>]

\* a mutant of clear: the statistics are reset with the dict
clear_resets_stats(c, s) ==
    [cache |-> <<>>,
     stats |-> [hits |-> 0, misses |-> 0, stores |-> 0, cleanups |-> 0, evictions |-> 0],
     value |-> None, log |-> <<Log("CLEARED", NoKey)>>]

clear(c, s) ==
    [cache |-> <<>>, stats |-> s, value |-> None, log |-> <<Log("CLEARED", NoKey)>>]

cleanup_expired(c, s, t) ==
    LET expired_keys == {c[i].key : i \in {j \in 1..Len(c) : t - c[j].timestamp > ttl}}
    IN  [cache |-> SelectSeq(c, LAMBDA e : e.key \notin expired_keys),
         stats |-> IF expired_keys # {} THEN [s EXCEPT !.cleanups = @ + 1] ELSE s,
         value |-> Cardinality(expired_keys),
         log |-> IF expired_keys # {} THEN <<Log("CLEANUP", NoKey)>> ELSE <<>>]

get_stats(c, s) ==
    [cache |-> c, stats |-> s,
     value |-> [hits |-> s.hits, misses |-> s.misses, stores |-> s.stores,
                cleanups |-> s.cleanups, evictions |-> s.evictions,
                size |-> Len(c), max_size |-> max_size, ttl |-> ttl],
     log |-> <<>>]

(***************************************************************************)
(* CacheManager: state machine.  Every method body is one `with            *)
(* self._lock:` block, so a call is one step taken when the lock is free;  *)
(* get_info is the exception: it calls get_stats while it holds the lock.  *)
(***************************************************************************)
InitCache ==
    /\ cache = <<>>
    /\ stats = [hits |-> 0, misses |-> 0, stores |-> 0, cleanups |-> 0, evictions |-> 0]
    /\ lock = NoThread
    /\ tpc = [t \in Threads |-> "idle"]
    /\ now = 0
    /\ ret = [op |-> "init", key |-> NoKey, value |-> None, log |-> <<>>]
    /\ calls = [get |-> 0, set |-> 0]
    /\ run = [pure |-> TRUE, keys |-> <<>>]
    /\ lastHit = NoKey

\* a thread not inside any method can enter `with self._lock:` when the lock is free
CanEnter(t) == tpc[t] = "idle" /\ lock = NoThread

\* some thread can run a whole `with self._lock:` body now
Callable == \E t \in Threads : CanEnter(t)

Apply(r, op, k) ==
    /\ cache' = r.cache
    /\ stats' = r.stats
    /\ ret' = [op |-> op, key |-> k, value |-> r.value, log |-> r.log]

NotPure == run' = [pure |-> FALSE, keys |-> <<>>]

Get(k) ==
    /\ Callable
    /\ calls.get < MaxGets
    /\ Apply(get(cache, stats, k, now), "get", k)
    /\ calls' = [calls EXCEPT !.get = @ + 1]
    /\ lastHit' = IF get(cache, stats, k, now).value # None THEN k ELSE lastHit
    /\ NotPure
    /\ UNCHANGED <<lock, tpc, now>>
    /\ UNCHANGED notCacheVars

Set(k, d) ==
    /\ Callable
    /\ calls.set < MaxSets
    /\ Apply(set(cache, stats, k, d, now), "set", k)
    /\ calls' = [calls EXCEPT !.set = @ + 1]
    /\ run' = IF run.pure /\ \A i \in 1..Len(run.keys) : run.keys[i] # k
              THEN [run EXCEPT !.keys = Append(@, k)]
              ELSE [pure |-> FALSE, keys |-> <<>>]
    /\ UNCHANGED <<lock, tpc, now>>
    /\ UNCHANGED lastHit
    /\ UNCHANGED notCacheVars

Delete(k) ==
    /\ Callable
    /\ Apply(delete(cache, stats, k), "delete", k)
    /\ NotPure
    /\ UNCHANGED <<lock, tpc, now, calls>>
    /\ UNCHANGED lastHit
    /\ UNCHANGED notCacheVars

Clear ==
    /\ Callable
    /\ Apply(clear(cache, stats), "clear", NoKey)
    /\ NotPure
    /\ UNCHANGED <<lock, tpc, now, calls>>
    /\ UNCHANGED lastHit
    /\ UNCHANGED notCacheVars

CleanupExpired ==
    /\ Callable
    /\ stats.cleanups < MaxCleanups
    /\ Apply(cleanup_expired(cache, stats, now), "cleanup_expired", NoKey)
    /\ NotPure
    /\ UNCHANGED <<lock, tpc, now, calls>>
    /\ UNCHANGED lastHit
    /\ UNCHANGED notCacheVars

\* get_stats, called directly (lock free) or from inside get_info, where the
\* same thread already holds the non-reentrant lock and the acquire blocks
GetStats(t) ==
    /\ tpc[t] \in {"idle", "get_info.get_stats"}
    /\ lock = NoThread
    /\ Apply(get_stats(cache, stats), "get_stats", NoKey)
    /\ tpc' = [tpc EXCEPT ![t] = "idle"]
    /\ UNCHANGED <<lock, now, calls, run>>
    /\ UNCHANGED lastHit
    /\ UNCHANGED notCacheVars

\* get_info: `with self._lock:` is entered, the ages are computed and
\* self.get_stats() is called with the lock still held
GetInfo(t) ==
    /\ CanEnter(t)
    /\ lock' = t
    /\ tpc' = [tpc EXCEPT ![t] = "get_info.get_stats"]
    /\ UNCHANGED <<cache, stats, now, ret, calls, run>>
    /\ UNCHANGED lastHit
    /\ UNCHANGED notCacheVars

Tick ==
    /\ now < MaxTime
    /\ now' = now + 1
    /\ UNCHANGED <<cache, stats, lock, tpc, ret, calls, run>>
    /\ UNCHANGED lastHit
    /\ UNCHANGED notCacheVars

NextCache ==
    \/ \E k \in Keys : Get(k)
    \/ \E k \in Keys : Set(k, Payload(k, now))
    \/ \E k \in Keys : Delete(k)
    \/ Clear
    \/ CleanupExpired
    \/ \E t \in Threads : GetStats(t)
    \/ \E t \in Threads : GetInfo(t)
    \/ Tick

NoPlan == "none"

\* a transfer (one download_stream call): st is none (not submitted), queued,
\* running or done; end is how stream.download ended; res is what
\* download_stream gave: "path" or "DownloadError"
NoTransfer == [st |-> "none", end |-> "none", res |-> "none"]

\* the download handler, not called
ParkedDownload ==
    /\ endpoint = "smart-download"
    /\ dpc = "idle" /\ plan = NoPlan /\ ffmpeg = TRUE /\ temp_dir = FALSE
    /\ ws = [exists |-> FALSE, files |-> {}]
    /\ video = NoTransfer /\ audio = NoTransfer /\ order = <<>>
    /\ tool = [calls |-> 0, state |-> "none", alive |-> FALSE]
    /\ outcome = [kind |-> "none", via |-> "none", cause |-> "none"]
    /\ gen = "none"

\* records standing for "not called yet" and for Python's None where a
\* record (a plan, a stream) is expected
NotCalled == [type |-> "NotCalled"]
NoneRecord == [type |-> "None"]

\* smart_select_best_option, not called
ParkedSelect ==
    /\ streams = [progressive |-> <<>>, video |-> <<>>, audio |-> <<>>,
                  prefer_progressive |-> FALSE]
    /\ selection = NotCalled

\* the scoring functions, not called
ParkedScore ==
    /\ subject = [kind |-> "none", a |-> NoneRecord, b |-> NoneRecord]
    /\ scores = [done |-> FALSE, a |-> 0, b |-> 0]

\* the enumeration of the streams does not raise
NoFail == [cat |-> "none", after |-> 0]

\* analyze_streams, not called
ParkedAnalyze ==
    /\ yt = [progressive |-> <<>>, video |-> <<>>, audio |-> <<>>, fail |-> NoFail]
    /\ analysis = [done |-> FALSE, progressive |-> <<>>, video |-> <<>>, audio |-> <<>>]

\* get_fast_smart_selection, not called
NoCall == [calls |-> 0, prefer_progressive |-> FALSE, fault |-> "none",
           raised |-> "none", result |-> NotCalled, report |-> "none"]

ParkedFast ==
    /\ asset = [progressive |-> <<>>, video |-> <<>>, audio |-> <<>>]
    /\ vcache = NoneRecord
    /\ fast = NoCall

\* merge_video_audio, not called
NotMerging == [pc |-> "idle", available |-> FALSE, cleanup_temp |-> FALSE,
               inputs |-> <<FALSE, FALSE>>, code |-> "none", result |-> "none"]

ParkedMerge ==
    /\ merge = NotMerging
    /\ mfs = [video |-> FALSE, audio |-> FALSE, output |-> "missing"]

\* cleanup_all_caches, not called
NoCleanup == [done |-> FALSE, before |-> [video_cache |-> 0, general_cache |-> 0],
              raised |-> "none", results |-> [video_cache |-> None, general_cache |-> None]]

ParkedCleanup ==
    /\ vcm = <<>> /\ gcm = <<>> /\ ctime = 0
    /\ cleanup = NoCleanup

\* contact_endpoint, not called
NoContact == [submits |-> 0, ip |-> "none", code |-> 0, refused |-> 0,
              accepted |-> [ip \in {"ip1", "ip2"} |-> <<>>]]

ParkedContact ==
    /\ limiter = <<>> /\ clock = 0 /\ brevo_api_key = FALSE
    /\ contact = NoContact

\* no writer thread is running
ParkedRace ==
    /\ dicts = <<>>
    /\ stored = 0
    /\ wr = <<>>
    /\ lastStore = 0

InitSpecCache == InitCache /\ ParkedDownload /\ ParkedSelect /\ ParkedScore /\ ParkedAnalyze /\ ParkedFast /\ ParkedRace /\ ParkedMerge /\ ParkedCleanup /\ ParkedContact

SpecCache == InitSpecCache /\ [][NextCache]_vars

(***************************************************************************)
(* POST /api/smart-download: main.py smart_download, with                  *)
(* YouTubeService.download_stream and FFmpegService.merge_video_audio      *)
(***************************************************************************)
PlanTypes == {"progressive", "merge", "unknown"}

\* how stream.download(...) can end: bytes written, a zero-byte file, no
\* file at all, or an exception
DownloadEnds == {"bytes", "empty_file", "no_file", "raises"}

\* how the merge tool run by subprocess.run can end
ToolEnds == {"exit0_output", "exit0_no_output", "nonzero", "timeout"}

\* a mutant of download_stream: the downloaded file is not verified
download_stream_unverified(end) ==
    IF end = "raises" THEN "DownloadError" ELSE "path"

\* YouTubeService.download_stream: the path, or DownloadError when
\* stream.download raised or the file is missing or empty
download_stream(end) ==
    IF end = "bytes" THEN "path" ELSE "DownloadError"

\* the file stream.download leaves in output_dir
Downloaded(end) == end \in {"bytes", "empty_file"}

Terminated(tr) == tr.st = "done"
Failed(tr) == tr.st = "done" /\ tr.res = "DownloadError"
Succeeded(tr) == tr.st = "done" /\ tr.res = "path"

\* a mutant of future_result: result() does not wait for the transfer
future_result_no_wait(tr) ==
    IF Failed(tr) THEN "DownloadError" ELSE "path"

\* Future.result(): blocks until the transfer is done, then returns its
\* value or raises its exception
future_result(tr) ==
    IF ~Terminated(tr) THEN "wait"
    ELSE IF tr.res = "path" THEN "path" ELSE "DownloadError"

\* a mutant of subprocess_run: on timeout the child is left running
subprocess_run_no_kill(end) ==
    [state |-> end, alive |-> end = "timeout"]

\* subprocess.run(cmd, capture_output=True, text=True, timeout=self.timeout):
\* returns when the child has exited; on timeout it kills the child, waits
\* for it and raises TimeoutExpired
subprocess_run(end) ==
    [state |-> end, alive |-> FALSE]

\* FFmpegService.merge_video_audio after subprocess.run: the output path, or
\* MergeError (non-zero exit, output missing or empty, timeout)
merge_result(end) ==
    IF end = "exit0_output" THEN "path" ELSE "MergeError"

\* the files of the workspace after the tool ran: on success the inputs are
\* removed (_cleanup_files); a failed or killed tool may leave an output file
merge_files(files, end) ==
    IF end = "exit0_output" THEN (files \ {"video", "audio"}) \cup {"output"}
    ELSE IF end \in {"nonzero", "timeout"} THEN files \cup {"output"}
    ELSE files

\* FFmpegService.cleanup_merge_dir: shutil.rmtree when the directory exists
cleanup_merge_dir(w) ==
    IF w.exists THEN [exists |-> FALSE, files |-> {}] ELSE w

\* the except clause of smart_download that catches the exception
except_clause(exc) ==
    IF exc \in {"FFmpegNotFoundError", "MergeError"} THEN "except FFmpeg/Merge"
    ELSE IF exc = "DownloadError" THEN "except DownloadError"
    ELSE "except Exception"

\* an exception inside the try block: the matching except clause cleans the
\* workspace up if temp_dir is set and raises HTTPException(500)
Raise(exc) ==
    /\ ws' = IF temp_dir THEN cleanup_merge_dir(ws) ELSE ws
    /\ outcome' = [kind |-> "HTTPException 500", via |-> except_clause(exc), cause |-> exc]
    /\ dpc' = "raised"

InitDownload ==
    /\ endpoint \in {"smart-download", "download"}
    /\ dpc = "idle" /\ plan = NoPlan /\ ffmpeg \in BOOLEAN /\ temp_dir = FALSE
    /\ ws = [exists |-> FALSE, files |-> {}]
    /\ video = NoTransfer /\ audio = NoTransfer /\ order = <<>>
    /\ tool = [calls |-> 0, state |-> "none", alive |-> FALSE]
    /\ outcome = [kind |-> "none", via |-> "none", cause |-> "none"]
    /\ gen = "none"

\* get_fast_smart_selection returns a plan
SelectPlan(p) ==
    /\ endpoint = "smart-download" /\ dpc = "idle"
    /\ plan' = p
    /\ dpc' = "create_youtube"
    /\ UNCHANGED <<endpoint, ffmpeg, temp_dir, ws, video, audio, order, tool, outcome, gen>>
    /\ UNCHANGED notDlVars

\* get_fast_smart_selection returns None: HTTPException(404) is raised inside
\* the try block and caught by `except Exception`
SelectNothing ==
    /\ endpoint = "smart-download" /\ dpc = "idle"
    /\ Raise("HTTPException 404")
    /\ UNCHANGED <<plan, endpoint, ffmpeg, temp_dir, video, audio, order, tool, gen>>
    /\ UNCHANGED notDlVars

\* create_youtube_object / create_safe_filename
CreateYouTube ==
    /\ dpc = "create_youtube"
    /\ dpc' = "mkdtemp"
    /\ UNCHANGED <<plan, endpoint, ffmpeg, temp_dir, ws, video, audio, order, tool, outcome, gen>>
    /\ UNCHANGED notDlVars

CreateYouTubeRaises ==
    /\ dpc = "create_youtube"
    /\ Raise("ServiceUnavailableError")
    /\ UNCHANGED <<plan, endpoint, ffmpeg, temp_dir, video, audio, order, tool, gen>>
    /\ UNCHANGED notDlVars

\* temp_dir = ffmpeg_service.create_temp_merge_dir()
CreateTempDir ==
    /\ dpc = "mkdtemp"
    /\ temp_dir' = TRUE
    /\ ws' = [exists |-> TRUE, files |-> {}]
    /\ dpc' = "dispatch"
    /\ UNCHANGED <<plan, endpoint, ffmpeg, video, audio, order, tool, outcome, gen>>
    /\ UNCHANGED notDlVars

\* type 'progressive': download_stream is called in the handler's thread
StartProgressive ==
    /\ dpc = "dispatch" /\ plan = "progressive"
    /\ video' = [st |-> "running", end |-> "none", res |-> "none"]
    /\ dpc' = "download_stream"
    /\ UNCHANGED <<plan, endpoint, ffmpeg, temp_dir, ws, audio, order, tool, outcome, gen>>
    /\ UNCHANGED notDlVars

\* a mutant of is_available: the executable is never looked for
is_available_unchecked(executable) == TRUE

\* FFmpegService.is_available: self._ffmpeg_executable is not None
is_available(executable) == executable

\* type 'merge' without FFmpeg: HTTPException(500, "FFmpeg not available for
\* merging"), caught by `except Exception`
MergeUnavailable ==
    /\ dpc = "dispatch" /\ plan = "merge" /\ ~is_available(ffmpeg)
    /\ Raise("FFmpeg not available for merging")
    /\ UNCHANGED <<plan, endpoint, ffmpeg, temp_dir, video, audio, order, tool, gen>>
    /\ UNCHANGED notDlVars

\* type 'merge': both downloads are submitted to the ThreadPoolExecutor
SubmitBoth ==
    /\ dpc = "dispatch" /\ plan = "merge" /\ is_available(ffmpeg)
    /\ video' = [st |-> "queued", end |-> "none", res |-> "none"]
    /\ audio' = [st |-> "queued", end |-> "none", res |-> "none"]
    /\ dpc' = "video_future.result"
    /\ UNCHANGED <<plan, endpoint, ffmpeg, temp_dir, ws, order, tool, outcome, gen>>
    /\ UNCHANGED notDlVars

\* any other type: HTTPException(500), caught by `except Exception`
UnknownType ==
    /\ dpc = "dispatch" /\ plan \notin {"progressive", "merge"}
    /\ Raise("Unknown smart download type")
    /\ UNCHANGED <<plan, endpoint, ffmpeg, temp_dir, video, audio, order, tool, gen>>
    /\ UNCHANGED notDlVars

\* an exception the handler does not expect (a missing key or attribute of
\* smart_option, no thread for the executor)
Unexpected ==
    /\ dpc = "dispatch"
    /\ Raise("Exception")
    /\ UNCHANGED <<plan, endpoint, ffmpeg, temp_dir, video, audio, order, tool, gen>>
    /\ UNCHANGED notDlVars

\* a worker thread of the executor picks a submitted download up
WorkerStart(name) ==
    /\ IF name = "video" THEN video.st = "queued" ELSE audio.st = "queued"
    /\ IF name = "video"
       THEN video' = [video EXCEPT !.st = "running"] /\ UNCHANGED audio
       ELSE audio' = [audio EXCEPT !.st = "running"] /\ UNCHANGED video
    /\ UNCHANGED <<dpc, plan, endpoint, ffmpeg, temp_dir, ws, order, tool, outcome, gen>>
    /\ UNCHANGED notDlVars

\* a running download_stream call ends
TransferEnd(name, end) ==
    /\ IF name = "video" THEN video.st = "running" ELSE audio.st = "running"
    /\ LET done == [st |-> "done", end |-> end, res |-> download_stream(end)]
       IN  IF name = "video"
           THEN video' = done /\ UNCHANGED audio
           ELSE audio' = done /\ UNCHANGED video
    /\ ws' = IF Downloaded(end) THEN [ws EXCEPT !.files = @ \cup {name}] ELSE ws
    /\ order' = Append(order, name)
    /\ UNCHANGED <<dpc, plan, endpoint, ffmpeg, temp_dir, tool, outcome, gen>>
    /\ UNCHANGED notDlVars

\* type 'progressive': download_stream returned or raised
ProgressiveResult ==
    /\ dpc = "download_stream" /\ Terminated(video)
    /\ IF video.res = "path"
       THEN dpc' = "respond" /\ UNCHANGED <<ws, outcome>>
       ELSE Raise(video.res)
    /\ UNCHANGED <<plan, endpoint, ffmpeg, temp_dir, video, audio, order, tool, gen>>
    /\ UNCHANGED notDlVars

\* video_path = video_future.result(); when it raises, the `with` block is
\* left through the executor's __exit__
VideoResult ==
    /\ dpc = "video_future.result"
    /\ future_result(video) # "wait"
    /\ dpc' = IF future_result(video) = "path" THEN "audio_future.result"
              ELSE "executor.__exit__"
    /\ UNCHANGED <<plan, endpoint, ffmpeg, temp_dir, ws, video, audio, order, tool, outcome, gen>>
    /\ UNCHANGED notDlVars

\* a mutant of shutdown: the executor is left without waiting (wait=False)
shutdown_no_wait(v, a) == TRUE

\* the end of `with ThreadPoolExecutor(...) as executor:` is
\* shutdown(wait=True): it returns once both submitted downloads are done
shutdown(v, a) == Terminated(v) /\ Terminated(a)

\* ThreadPoolExecutor.__exit__ = shutdown(wait=True): the pending exception
\* of video_future.result() leaves the `with` block once every worker is done
ExecutorExit ==
    /\ dpc = "executor.__exit__"
    /\ shutdown(video, audio)
    /\ Raise("DownloadError")
    /\ UNCHANGED <<plan, endpoint, ffmpeg, temp_dir, video, audio, order, tool, gen>>
    /\ UNCHANGED notDlVars

\* audio_path = audio_future.result(); then the `with` block ends
AudioResult ==
    /\ dpc = "audio_future.result"
    /\ future_result(audio) # "wait"
    /\ IF future_result(audio) = "path"
       THEN dpc' = "merge_video_audio" /\ UNCHANGED <<ws, outcome>>
       ELSE Raise("DownloadError")
    /\ UNCHANGED <<plan, endpoint, ffmpeg, temp_dir, video, audio, order, tool, gen>>
    /\ UNCHANGED notDlVars

\* merge_video_audio up to subprocess.run: FFmpeg and both inputs are checked,
\* then the tool is started
MergeStart ==
    /\ dpc = "merge_video_audio"
    /\ IF ~is_available(ffmpeg) THEN Raise("FFmpegNotFoundError") /\ UNCHANGED tool
       ELSE IF ~({"video", "audio"} \subseteq ws.files)
            THEN Raise("MergeError") /\ UNCHANGED tool
       ELSE /\ tool' = [calls |-> tool.calls + 1, state |-> "running", alive |-> TRUE]
            /\ dpc' = "subprocess.run"
            /\ UNCHANGED <<ws, outcome>>
    /\ UNCHANGED <<plan, endpoint, ffmpeg, temp_dir, video, audio, order, gen>>
    /\ UNCHANGED notDlVars

\* subprocess.run returns or raises TimeoutExpired; merge_video_audio returns
\* the output path or raises MergeError
MergeEnd(end) ==
    /\ dpc = "subprocess.run"
    /\ tool' = [calls |-> tool.calls, state |-> subprocess_run(end).state,
                alive |-> subprocess_run(end).alive]
    /\ IF merge_result(end) = "path"
       THEN /\ ws' = [ws EXCEPT !.files = merge_files(@, end)]
            /\ dpc' = "respond"
            /\ UNCHANGED outcome
       ELSE /\ ws' = IF temp_dir THEN cleanup_merge_dir([ws EXCEPT !.files = merge_files(@, end)])
                                 ELSE [ws EXCEPT !.files = merge_files(@, end)]
            /\ outcome' = [kind |-> "HTTPException 500", via |-> except_clause("MergeError"),
                           cause |-> "MergeError"]
            /\ dpc' = "raised"
    /\ UNCHANGED <<plan, endpoint, ffmpeg, temp_dir, video, audio, order, gen>>
    /\ UNCHANGED notDlVars

\* return StreamingResponse(iterfile(), ...): the generator is created, its
\* body has not started
Respond ==
    /\ dpc = "respond"
    /\ gen' = "created"
    /\ outcome' = [kind |-> "StreamingResponse", via |-> "return", cause |-> "none"]
    /\ dpc' = "returned"
    /\ UNCHANGED <<plan, endpoint, ffmpeg, temp_dir, ws, video, audio, order, tool>>
    /\ UNCHANGED notDlVars

\* the server starts to iterate the body: iterfile enters its try block
GenStart ==
    /\ gen = "created"
    /\ gen' = "running"
    /\ UNCHANGED <<dpc, plan, endpoint, ffmpeg, temp_dir, ws, video, audio, order, tool, outcome>>
    /\ UNCHANGED notDlVars

\* the file is read to its end: the finally clause cleans the workspace up
GenFinish ==
    /\ gen = "running"
    /\ gen' = "finished"
    /\ ws' = cleanup_merge_dir(ws)
    /\ UNCHANGED <<dpc, plan, endpoint, ffmpeg, temp_dir, video, audio, order, tool, outcome>>
    /\ UNCHANGED notDlVars

\* the client stops reading: the generator is closed at its yield
\* (GeneratorExit) and the finally clause cleans the workspace up
GenClose ==
    /\ gen = "running"
    /\ gen' = "closed"
    /\ ws' = cleanup_merge_dir(ws)
    /\ UNCHANGED <<dpc, plan, endpoint, ffmpeg, temp_dir, video, audio, order, tool, outcome>>
    /\ UNCHANGED notDlVars

\* the body is never iterated (the client is gone before the first chunk is
\* asked for): a generator that was never started runs no finally clause
GenDrop ==
    /\ gen = "created"
    /\ gen' = "dropped"
    /\ UNCHANGED <<dpc, plan, endpoint, ffmpeg, temp_dir, ws, video, audio, order, tool, outcome>>
    /\ UNCHANGED notDlVars

\* ---- POST /api/download (main.py download_video) ----

\* the except clause of download_video that catches the exception
except_clause_download(exc) ==
    IF exc = "StreamNotFoundError" THEN "except StreamNotFoundError"
    ELSE IF exc = "DownloadError" THEN "except DownloadError"
    ELSE "except Exception"

\* an exception inside the try block of download_video: the matching except
\* clause cleans the temporary directory up if temp_dir is set; the clauses
\* for StreamNotFoundError and DownloadError raise HTTPException (404, 500),
\* the clause `except Exception` raises nothing, so the handler falls off its
\* end and returns None (the caller gets 200 with the body null)
RaiseDownload(exc) ==
    /\ ws' = IF temp_dir THEN cleanup_merge_dir(ws) ELSE ws
    /\ outcome' = [kind |-> IF exc = "StreamNotFoundError" THEN "HTTPException 404"
                            ELSE IF exc = "DownloadError" THEN "HTTPException 500"
                            ELSE "200 null",
                   via |-> except_clause_download(exc), cause |-> exc]
    /\ dpc' = IF exc \in {"StreamNotFoundError", "DownloadError"} THEN "raised"
              ELSE "returned None"

\* yt = youtube_service.create_youtube_object(...)
DlCreateYouTube ==
    /\ endpoint = "download" /\ dpc = "idle"
    /\ dpc' = "get_stream_by_itag"
    /\ UNCHANGED <<endpoint, plan, ffmpeg, temp_dir, ws, video, audio, order, tool, outcome, gen>>
    /\ UNCHANGED notDlVars

DlCreateYouTubeRaises ==
    /\ endpoint = "download" /\ dpc = "idle"
    /\ RaiseDownload("ServiceUnavailableError")
    /\ UNCHANGED <<endpoint, plan, ffmpeg, temp_dir, video, audio, order, tool, gen>>
    /\ UNCHANGED notDlVars

\* stream = youtube_service.get_stream_by_itag(yt, stream_id)
DlGetStream ==
    /\ dpc = "get_stream_by_itag"
    /\ dpc' = "create_temp_directory"
    /\ UNCHANGED <<endpoint, plan, ffmpeg, temp_dir, ws, video, audio, order, tool, outcome, gen>>
    /\ UNCHANGED notDlVars

\* get_stream_by_itag raises StreamNotFoundError (no such itag, an itag that
\* is no number, or any exception of the lookup)
DlStreamNotFound ==
    /\ dpc = "get_stream_by_itag"
    /\ RaiseDownload("StreamNotFoundError")
    /\ UNCHANGED <<endpoint, plan, ffmpeg, temp_dir, video, audio, order, tool, gen>>
    /\ UNCHANGED notDlVars

\* temp_dir = create_temp_directory()
DlCreateTempDir ==
    /\ dpc = "create_temp_directory"
    /\ temp_dir' = TRUE
    /\ ws' = [exists |-> TRUE, files |-> {}]
    /\ dpc' = "filename"
    /\ UNCHANGED <<endpoint, plan, ffmpeg, video, audio, order, tool, outcome, gen>>
    /\ UNCHANGED notDlVars

\* the file name is made and download_stream is called in the handler's thread
DlStartDownload ==
    /\ dpc = "filename"
    /\ video' = [st |-> "running", end |-> "none", res |-> "none"]
    /\ dpc' = "download.download_stream"
    /\ UNCHANGED <<endpoint, plan, ffmpeg, temp_dir, ws, audio, order, tool, outcome, gen>>
    /\ UNCHANGED notDlVars

\* an exception the handler does not expect (create_safe_filename, an
\* attribute of the stream)
DlUnexpected ==
    /\ dpc = "filename"
    /\ RaiseDownload("Exception")
    /\ UNCHANGED <<endpoint, plan, ffmpeg, temp_dir, video, audio, order, tool, gen>>
    /\ UNCHANGED notDlVars

\* download_stream returned or raised
DlResult ==
    /\ dpc = "download.download_stream" /\ Terminated(video)
    /\ IF video.res = "path"
       THEN dpc' = "respond" /\ UNCHANGED <<ws, outcome>>
       ELSE RaiseDownload(video.res)
    /\ UNCHANGED <<endpoint, plan, ffmpeg, temp_dir, video, audio, order, tool, gen>>
    /\ UNCHANGED notDlVars

NextDownload ==
    \/ \E p \in PlanTypes : SelectPlan(p)
    \/ SelectNothing
    \/ CreateYouTube
    \/ CreateYouTubeRaises
    \/ CreateTempDir
    \/ StartProgressive
    \/ MergeUnavailable
    \/ SubmitBoth
    \/ UnknownType
    \/ Unexpected
    \/ \E name \in {"video", "audio"} : WorkerStart(name)
    \/ \E name \in {"video", "audio"}, end \in DownloadEnds : TransferEnd(name, end)
    \/ ProgressiveResult
    \/ VideoResult
    \/ ExecutorExit
    \/ AudioResult
    \/ MergeStart
    \/ \E end \in ToolEnds : MergeEnd(end)
    \/ Respond
    \/ GenStart
    \/ GenFinish
    \/ GenClose
    \/ GenDrop
    \/ DlCreateYouTube
    \/ DlCreateYouTubeRaises
    \/ DlGetStream
    \/ DlStreamNotFound
    \/ DlCreateTempDir
    \/ DlStartDownload
    \/ DlUnexpected
    \/ DlResult

InitSpecDownload == InitDownload /\ InitCache /\ ParkedSelect /\ ParkedScore /\ ParkedAnalyze /\ ParkedFast /\ ParkedRace /\ ParkedMerge /\ ParkedCleanup /\ ParkedContact

SpecDownload == InitSpecDownload /\ [][NextDownload]_vars

\* the handler, the worker threads, the merge tool and the server that
\* iterates or drops the response body all keep running: some step that is
\* possible is taken in the end
SpecDownloadLive == SpecDownload /\ WF_vars(NextDownload)

\* the operation is over: the handler raised, or it returned the response and
\* the body generator is finished, closed or dropped
Terminal ==
    \/ dpc = "raised"
    \/ dpc = "returned" /\ gen \in {"finished", "closed", "dropped"}
    \/ dpc = "returned None"

(***************************************************************************)
(* services/smart_selection.py: scoring and smart_select_best_option       *)
(***************************************************************************)
MaxStreams == 2

\* stream.resolution ('1080p') and stream.abr ('128kbps'): the number the
\* string starts with, and the rest of it
Resolution(n) == <<n, "p">>
Bitrate(n) == <<n, "kbps">>

\* extract_resolution_number: the first run of digits, 0 for None
extract_resolution_number(resolution_str) ==
    IF resolution_str = None THEN 0 ELSE resolution_str[1]

\* extract_audio_bitrate: the first run of digits, 0 for None
extract_audio_bitrate(abr_str) ==
    IF abr_str = None THEN 0 ELSE abr_str[1]

\* a mutant of calculate_video_quality_score: 720 lines score as 480 lines do
video_score_flat_720(stream) ==
    LET res_num == extract_resolution_number(stream.resolution)
        tier == IF stream.resolution = None THEN 0
                ELSE IF res_num >= 2160 THEN 1000
                ELSE IF res_num >= 1440 THEN 800
                ELSE IF res_num >= 1080 THEN 600
                ELSE IF res_num >= 480 THEN 200
                ELSE res_num \div 10
        fps == IF stream.fps >= 60 THEN 50
               ELSE IF stream.fps >= 30 THEN 25
               ELSE 0
        codec == IF stream.video_codec = "av01" THEN 30
                 ELSE IF stream.video_codec = "vp9" THEN 20
                 ELSE IF stream.video_codec = "h264" THEN 10
                 ELSE 0
    IN  tier + fps + codec

\* calculate_video_quality_score, with QualityScores of app/config.py
calculate_video_quality_score(stream) ==
    LET res_num == extract_resolution_number(stream.resolution)
        tier == IF stream.resolution = None THEN 0
                ELSE IF res_num >= 2160 THEN 1000
                ELSE IF res_num >= 1440 THEN 800
                ELSE IF res_num >= 1080 THEN 600
                ELSE IF res_num >= 720 THEN 400
                ELSE IF res_num >= 480 THEN 200
                ELSE res_num \div 10
        fps == IF stream.fps >= 60 THEN 50
               ELSE IF stream.fps >= 30 THEN 25
               ELSE 0
        codec == IF stream.video_codec = "av01" THEN 30
                 ELSE IF stream.video_codec = "vp9" THEN 20
                 ELSE IF stream.video_codec = "h264" THEN 10
                 ELSE 0
    IN  tier + fps + codec

\* a mutant of calculate_audio_quality_score: 128 kbps score as 96 kbps do
audio_score_flat_128(stream) ==
    LET bitrate == extract_audio_bitrate(stream.abr)
        tier == IF stream.abr = None THEN 0
                ELSE IF bitrate >= 320 THEN 300
                ELSE IF bitrate >= 256 THEN 250
                ELSE IF bitrate >= 192 THEN 200
                ELSE IF bitrate >= 96 THEN 100
                ELSE bitrate
        codec == IF stream.audio_codec = "opus" THEN 25
                 ELSE IF stream.audio_codec = "aac" THEN 20
                 ELSE IF stream.audio_codec = "mp3" THEN 10
                 ELSE 0
    IN  tier + codec

\* calculate_audio_quality_score, with QualityScores of app/config.py
calculate_audio_quality_score(stream) ==
    LET bitrate == extract_audio_bitrate(stream.abr)
        tier == IF stream.abr = None THEN 0
                ELSE IF bitrate >= 320 THEN 300
                ELSE IF bitrate >= 256 THEN 250
                ELSE IF bitrate >= 192 THEN 200
                ELSE IF bitrate >= 128 THEN 150
                ELSE IF bitrate >= 96 THEN 100
                ELSE bitrate
        codec == IF stream.audio_codec = "opus" THEN 25
                 ELSE IF stream.audio_codec = "aac" THEN 20
                 ELSE IF stream.audio_codec = "mp3" THEN 10
                 ELSE 0
    IN  tier + codec

\* the streams of the videos: resolutions on both sides of 720 and of the
\* factor 1.5 (1080 = 1.5 x 720)
Lines == {480, 720, 1080, 2160}
Kbps == {128, 256}

VideoStreamsOf(kind) ==
    {[type |-> kind, resolution |-> Resolution(n), fps |-> 30, video_codec |-> "vp9"] :
        n \in Lines}

AudioStreams ==
    {[type |-> "audio", abr |-> Bitrate(n), audio_codec |-> "opus"] : n \in Kbps}

\* StreamAnalysis(stream, stream_type, quality_score, size_mb)
StreamAnalysis(stream, score) == [stream |-> stream, quality_score |-> score]

\* list.sort(key=lambda x: x.quality_score, reverse=True)
SortedByScore(list) ==
    \A i \in 1..(Len(list) - 1) : list[i].quality_score >= list[i + 1].quality_score

ListsOver(S) == UNION {[1..n -> S] : n \in 0..MaxStreams}

\* the lists analyze_streams can return
ProgressiveLists ==
    {l \in ListsOver({StreamAnalysis(st, calculate_video_quality_score(st)) :
                        st \in VideoStreamsOf("progressive")}) : SortedByScore(l)}

VideoLists ==
    {l \in ListsOver({StreamAnalysis(st, calculate_video_quality_score(st)) :
                        st \in VideoStreamsOf("video")}) : SortedByScore(l)}

AudioLists ==
    {l \in ListsOver({StreamAnalysis(st, calculate_audio_quality_score(st)) :
                        st \in AudioStreams}) : SortedByScore(l)}

\* a mutant of ProgressivePlan: merge_required is set
ProgressivePlan_merge_required(best_progressive, rule) ==
    [type |-> "progressive", video_stream |-> best_progressive.stream,
     audio_stream |-> NoneRecord, merge_required |-> TRUE, rule |-> rule]

MergePlan(best_video, best_audio, rule) ==
    [type |-> "merge", video_stream |-> best_video.stream,
     audio_stream |-> best_audio.stream, merge_required |-> TRUE, rule |-> rule]

ProgressivePlan(best_progressive, rule) ==
    [type |-> "progressive", video_stream |-> best_progressive.stream,
     audio_stream |-> NoneRecord, merge_required |-> FALSE, rule |-> rule]

\* the resolution of the best progressive stream, 0 when there is none
best_progressive_quality(progressive_streams) ==
    IF progressive_streams # <<>>
    THEN extract_resolution_number(progressive_streams[1].stream.resolution)
    ELSE 0

\* a mutant of MergeIsBetter: the factor 1.5 is not looked at
MergeIsBetter_only_below_720(progressive_streams, video_streams) ==
    best_progressive_quality(progressive_streams) < 720

\* a mutant of MergeIsBetter: >= in place of >
MergeIsBetter_or_equal(progressive_streams, video_streams) ==
    LET best_video_quality == extract_resolution_number(video_streams[1].stream.resolution)
        bpq == best_progressive_quality(progressive_streams)
    IN  2 * best_video_quality >= 3 * bpq \/ bpq < 720

\* best_video_quality > best_progressive_quality * 1.5 or
\* best_progressive_quality < 720   (x * 1.5 is exact on these integers)
MergeIsBetter(progressive_streams, video_streams) ==
    LET best_video_quality == extract_resolution_number(video_streams[1].stream.resolution)
        bpq == best_progressive_quality(progressive_streams)
    IN  2 * best_video_quality > 3 * bpq \/ bpq < 720

\* a mutant of smart_select_best_option: no last resort (option 4)
select_without_last_resort(progressive_streams, video_streams, audio_streams, prefer_progressive) ==
    IF video_streams # <<>> /\ audio_streams # <<>>
       /\ MergeIsBetter(progressive_streams, video_streams)
    THEN MergePlan(video_streams[1], audio_streams[1], 1)
    ELSE IF prefer_progressive /\ progressive_streams # <<>>
            /\ extract_resolution_number(progressive_streams[1].stream.resolution) >= 720
    THEN ProgressivePlan(progressive_streams[1], 2)
    ELSE IF video_streams # <<>> /\ audio_streams # <<>>
    THEN MergePlan(video_streams[1], audio_streams[1], 3)
    ELSE NoneRecord

\* a mutant of smart_select_best_option: no merge fallback (option 3)
select_without_merge_fallback(progressive_streams, video_streams, audio_streams, prefer_progressive) ==
    IF video_streams # <<>> /\ audio_streams # <<>>
       /\ MergeIsBetter(progressive_streams, video_streams)
    THEN MergePlan(video_streams[1], audio_streams[1], 1)
    ELSE IF prefer_progressive /\ progressive_streams # <<>>
            /\ extract_resolution_number(progressive_streams[1].stream.resolution) >= 720
    THEN ProgressivePlan(progressive_streams[1], 2)
    ELSE IF progressive_streams # <<>>
    THEN ProgressivePlan(progressive_streams[1], 4)
    ELSE NoneRecord

\* a mutant of smart_select_best_option: the last resort (option 4) asks
\* for 720 lines as option 2 does
select_last_resort_from_720(progressive_streams, video_streams, audio_streams, prefer_progressive) ==
    IF video_streams # <<>> /\ audio_streams # <<>>
       /\ MergeIsBetter(progressive_streams, video_streams)
    THEN MergePlan(video_streams[1], audio_streams[1], 1)
    ELSE IF prefer_progressive /\ progressive_streams # <<>>
            /\ extract_resolution_number(progressive_streams[1].stream.resolution) >= 720
    THEN ProgressivePlan(progressive_streams[1], 2)
    ELSE IF video_streams # <<>> /\ audio_streams # <<>>
    THEN MergePlan(video_streams[1], audio_streams[1], 3)
    ELSE IF progressive_streams # <<>>
            /\ extract_resolution_number(progressive_streams[1].stream.resolution) >= 720
    THEN ProgressivePlan(progressive_streams[1], 4)
    ELSE NoneRecord

\* smart_select_best_option on the lists analyze_streams returned
smart_select_best_option(progressive_streams, video_streams, audio_streams, prefer_progressive) ==
    IF video_streams # <<>> /\ audio_streams # <<>>
       /\ MergeIsBetter(progressive_streams, video_streams)
    THEN MergePlan(video_streams[1], audio_streams[1], 1)
    ELSE IF prefer_progressive /\ progressive_streams # <<>>
            /\ extract_resolution_number(progressive_streams[1].stream.resolution) >= 720
    THEN ProgressivePlan(progressive_streams[1], 2)
    ELSE IF video_streams # <<>> /\ audio_streams # <<>>
    THEN MergePlan(video_streams[1], audio_streams[1], 3)
    ELSE IF progressive_streams # <<>>
    THEN ProgressivePlan(progressive_streams[1], 4)
    ELSE NoneRecord

InitSelect ==
    /\ streams \in [progressive : ProgressiveLists, video : VideoLists,
                     audio : AudioLists, prefer_progressive : BOOLEAN]
    /\ selection = NotCalled

\* smart_select_best_option(yt, prefer_progressive)
SmartSelect ==
    /\ selection = NotCalled
    /\ selection' = smart_select_best_option(streams.progressive, streams.video,
                                             streams.audio, streams.prefer_progressive)
    /\ UNCHANGED streams
    /\ UNCHANGED notSelVars

NextSelect == SmartSelect

InitSpecSelect == InitSelect /\ InitCache /\ ParkedDownload /\ ParkedScore /\ ParkedAnalyze /\ ParkedFast /\ ParkedRace /\ ParkedMerge /\ ParkedCleanup /\ ParkedContact

SpecSelect == InitSpecSelect /\ [][NextSelect]_vars

(***************************************************************************)
(* services/smart_selection.py: the scoring functions on their own         *)
(***************************************************************************)

\* resolutions around every tier of calculate_video_quality_score, frame
\* rates around the two bonuses, and codec strings: one of each class the
\* code looks for and one ('avc1') that holds none of them; 0 and "none"
\* stand for an attribute that is None
ScoreLines == {240, 480, 719, 720, 1080, 1440, 2160}
ScoreFps == {0, 24, 30, 60}
ScoreVideoCodecs == {"none", "avc1", "h264", "vp9", "av01"}
ScoreKbps == {64, 80, 96, 128, 192, 256, 320}
ScoreAudioCodecs == {"none", "mp4a", "mp3", "aac", "opus"}

ScoredVideoStreams ==
    {[type |-> "video", resolution |-> r, fps |-> f, video_codec |-> c] :
        r \in {Resolution(n) : n \in ScoreLines} \cup {None},
        f \in ScoreFps, c \in ScoreVideoCodecs}

ScoredAudioStreams ==
    {[type |-> "audio", abr |-> b, audio_codec |-> c] :
        b \in {Bitrate(n) : n \in ScoreKbps} \cup {None},
        c \in ScoreAudioCodecs}

InitScore ==
    /\ \/ subject \in [kind : {"video"}, a : ScoredVideoStreams, b : ScoredVideoStreams]
       \/ subject \in [kind : {"audio"}, a : ScoredAudioStreams, b : ScoredAudioStreams]
    /\ scores = [done |-> FALSE, a |-> 0, b |-> 0]

\* calculate_video_quality_score(stream), for both streams
ScoreVideo ==
    /\ subject.kind = "video" /\ ~scores.done
    /\ scores' = [done |-> TRUE, a |-> calculate_video_quality_score(subject.a),
                  b |-> calculate_video_quality_score(subject.b)]
    /\ UNCHANGED subject
    /\ UNCHANGED notScoreVars

\* calculate_audio_quality_score(stream), for both streams
ScoreAudio ==
    /\ subject.kind = "audio" /\ ~scores.done
    /\ scores' = [done |-> TRUE, a |-> calculate_audio_quality_score(subject.a),
                  b |-> calculate_audio_quality_score(subject.b)]
    /\ UNCHANGED subject
    /\ UNCHANGED notScoreVars

NextScore == ScoreVideo \/ ScoreAudio

InitSpecScore == InitScore /\ InitCache /\ ParkedDownload /\ ParkedSelect /\ ParkedAnalyze /\ ParkedFast /\ ParkedRace /\ ParkedMerge /\ ParkedCleanup /\ ParkedContact

SpecScore == InitSpecScore /\ [][NextScore]_vars

(***************************************************************************)
(* services/smart_selection.py: analyze_streams                            *)
(***************************************************************************)
MaxRaw == 2

\* what yt.streams.filter(...) gives for a video category: streams in their
\* discovery order (itag), each with a resolution or with None
RawVideoLists(kind, resolutions) ==
    {[i \in 1..Len(l) |-> [type |-> kind, itag |-> i, resolution |-> l[i],
                           fps |-> 30, video_codec |-> "vp9"]] :
        l \in UNION {[1..n -> resolutions] : n \in 0..MaxRaw}}

\* what yt.streams.filter(only_audio=True) gives
RawAudioLists(bitrates) ==
    {[i \in 1..Len(l) |-> [type |-> "audio", itag |-> i, abr |-> l[i],
                           audio_codec |-> "opus"]] :
        l \in UNION {[1..n -> bitrates] : n \in 0..MaxRaw}}

Categories == <<"progressive", "video", "audio">>

\* the places where the enumeration can raise: in category cat, after
\* `after` of its streams were analyzed (0: the filter call itself raises)
FailPoints(raw) ==
    {NoFail} \cup
    {f \in [cat : {"progressive", "video", "audio"}, after : 0..MaxRaw] :
        f.after <= Len(raw[f.cat])}

CategoryIndex(c) == CHOOSE i \in 1..3 : Categories[i] = c

\* how many streams of category c are analyzed before the exception
Reached(raw, c) ==
    IF raw.fail = NoFail THEN Len(raw[c])
    ELSE IF CategoryIndex(c) < CategoryIndex(raw.fail.cat) THEN Len(raw[c])
    ELSE IF c = raw.fail.cat THEN raw.fail.after
    ELSE 0

\* the loops over the two video categories: `if stream.resolution:` keeps a
\* stream, StreamAnalysis(stream, kind, quality_score, size_mb) is appended
CollectVideo(list, n) ==
    LET kept == SelectSeq(SubSeq(list, 1, n), LAMBDA st : st.resolution # None)
    IN  [i \in 1..Len(kept) |-> StreamAnalysis(kept[i], calculate_video_quality_score(kept[i]))]

\* the loop over the audio streams: every stream is appended
CollectAudio(list, n) ==
    [i \in 1..n |-> StreamAnalysis(list[i], calculate_audio_quality_score(list[i]))]

\* the place of x in a list in descending order, after its equals
RECURSIVE InsertAfterEquals(_, _)
InsertAfterEquals(sorted, x) ==
    IF sorted = <<>> THEN <<x>>
    ELSE IF Head(sorted).quality_score >= x.quality_score
         THEN <<Head(sorted)>> \o InsertAfterEquals(Tail(sorted), x)
         ELSE <<x>> \o sorted

\* the place of x in a list in descending order, before its equals
RECURSIVE InsertBeforeEquals(_, _)
InsertBeforeEquals(sorted, x) ==
    IF sorted = <<>> THEN <<x>>
    ELSE IF Head(sorted).quality_score > x.quality_score
         THEN <<Head(sorted)>> \o InsertBeforeEquals(Tail(sorted), x)
         ELSE <<x>> \o sorted

\* a mutant of sort_by_score: equal scores end in reverse discovery order
RECURSIVE sort_unstable(_)
sort_unstable(list) ==
    IF list = <<>> THEN <<>>
    ELSE InsertBeforeEquals(sort_unstable(SubSeq(list, 1, Len(list) - 1)), list[Len(list)])

\* list.sort(key=lambda x: x.quality_score, reverse=True): descending and
\* stable (equal keys keep their order, with reverse=True too)
RECURSIVE sort_by_score(_)
sort_by_score(list) ==
    IF list = <<>> THEN <<>>
    ELSE InsertAfterEquals(sort_by_score(SubSeq(list, 1, Len(list) - 1)), list[Len(list)])

\* analyze_streams: the three loops, then the three sorts; an exception
\* anywhere in the try block is logged and the lists are returned as they are
analyze_streams(raw) ==
    LET progressive_streams == CollectVideo(raw.progressive, Reached(raw, "progressive"))
        video_streams == CollectVideo(raw.video, Reached(raw, "video"))
        audio_streams == CollectAudio(raw.audio, Reached(raw, "audio"))
    IN  IF raw.fail = NoFail
        THEN [done |-> TRUE,
              progressive |-> sort_by_score(progressive_streams),
              video |-> sort_by_score(video_streams),
              audio |-> sort_by_score(audio_streams)]
        ELSE [done |-> TRUE,
              progressive |-> progressive_streams,
              video |-> video_streams,
              audio |-> audio_streams]

InitAnalyze ==
    /\ \E p \in RawVideoLists("progressive", {None, Resolution(720)}),
          v \in RawVideoLists("video", {None, Resolution(480), Resolution(1080)}),
          a \in RawAudioLists({None, Bitrate(128), Bitrate(256)}) :
          \E f \in FailPoints([progressive |-> p, video |-> v, audio |-> a]) :
             yt = [progressive |-> p, video |-> v, audio |-> a, fail |-> f]
    /\ analysis = [done |-> FALSE, progressive |-> <<>>, video |-> <<>>, audio |-> <<>>]

\* analyze_streams(yt) with an enumeration that does not raise
Analyze ==
    /\ ~analysis.done /\ yt.fail = NoFail
    /\ analysis' = analyze_streams(yt)
    /\ UNCHANGED yt
    /\ UNCHANGED notAnVars

\* analyze_streams(yt) with an enumeration that raises at yt.fail
AnalyzeRaising ==
    /\ ~analysis.done /\ yt.fail # NoFail
    /\ analysis' = analyze_streams(yt)
    /\ UNCHANGED yt
    /\ UNCHANGED notAnVars

NextAnalyze == Analyze \/ AnalyzeRaising

InitSpecAnalyze == InitAnalyze /\ InitCache /\ ParkedDownload /\ ParkedSelect /\ ParkedScore /\ ParkedFast /\ ParkedRace /\ ParkedMerge /\ ParkedCleanup /\ ParkedContact

SpecAnalyze == InitSpecAnalyze /\ [][NextAnalyze]_vars

(***************************************************************************)
(* main.py: get_fast_smart_selection over video_cache, and what the        *)
(* endpoints report for its result                                         *)
(***************************************************************************)
MaxCalls == 2

\* the steps of get_fast_smart_selection that can raise: the remote service
\* (create_youtube_object), the cache lookup, the selection (caught inside
\* smart_select_best_option, which then returns None), and the cache store
Faults == {"none", "create_youtube_object", "get_analysis", "smart_select",
           "cache_smart_selection"}

\* VideoAnalysisCache.cache_smart_selection:
\*   analysis = self.get_analysis(video_id) or {}
\*   analysis['smart_selection'] = smart_selection_data; cache_analysis(...)
cache_smart_selection(entry, smart_selection_data) ==
    [smart_selection |-> smart_selection_data]

\* the cache lookup gave a bundle with a smart_selection
CacheHit(entry) == entry # NoneRecord /\ entry.smart_selection # NoneRecord

\* smart_select_best_option(yt, prefer_progressive); an exception inside it
\* is caught there and None is returned
Selected(a, prefer_progressive, fault) ==
    IF fault = "smart_select" THEN NoneRecord
    ELSE smart_select_best_option(a.progressive, a.video, a.audio, prefer_progressive)

\* get_fast_smart_selection: [result, entry (the cache afterwards), raised
\* (the step that raised, caught by `except Exception: return None`)]
get_fast_smart_selection(a, prefer_progressive, entry, fault) ==
    IF fault \in {"create_youtube_object", "get_analysis"}
    THEN [result |-> NoneRecord, entry |-> entry, raised |-> fault]
    ELSE IF CacheHit(entry)
    THEN [result |-> entry.smart_selection, entry |-> entry, raised |-> "none"]
    ELSE IF Selected(a, prefer_progressive, fault) = NoneRecord
    THEN [result |-> NoneRecord, entry |-> entry,
          raised |-> IF fault = "smart_select" THEN fault ELSE "none"]
    ELSE IF fault = "cache_smart_selection"
    THEN [result |-> NoneRecord, entry |-> entry, raised |-> fault]
    ELSE [result |-> Selected(a, prefer_progressive, fault),
          entry |-> cache_smart_selection(entry, Selected(a, prefer_progressive, fault)),
          raised |-> "none"]

\* smart_download and get_smart_download_info_endpoint:
\*   if not smart_option: raise HTTPException(404, "No suitable streams found ...")
report_selection(result) ==
    IF result = NoneRecord THEN "No suitable streams found" ELSE "plan"

\* the videos: at most one stream of each category
FastAssets ==
    [progressive : {l \in ProgressiveLists : Len(l) <= 1},
     video : {l \in VideoLists : Len(l) <= 1},
     audio : {l \in AudioLists : Len(l) <= 1}]

InitFast ==
    /\ asset \in FastAssets
    /\ vcache = NoneRecord
    /\ fast = NoCall

\* a request calls get_fast_smart_selection(video_url, prefer_progressive)
FastSelection(prefer_progressive, fault) ==
    /\ fast.calls < MaxCalls
    /\ LET r == get_fast_smart_selection(asset, prefer_progressive, vcache, fault)
       IN  /\ vcache' = r.entry
           /\ fast' = [calls |-> fast.calls + 1, prefer_progressive |-> prefer_progressive,
                       fault |-> fault, raised |-> r.raised, result |-> r.result,
                       report |-> report_selection(r.result)]
    /\ UNCHANGED asset
    /\ UNCHANGED notFastVars

\* the cached analysis gets older than the TTL: the next lookup misses
CacheExpires ==
    /\ vcache # NoneRecord
    /\ vcache' = NoneRecord
    /\ UNCHANGED <<asset, fast>>
    /\ UNCHANGED notFastVars

NextFast ==
    \/ \E p \in BOOLEAN, f \in Faults : FastSelection(p, f)
    \/ CacheExpires

InitSpecFast == InitFast /\ InitCache /\ ParkedDownload /\ ParkedSelect /\ ParkedScore /\ ParkedAnalyze /\ ParkedRace /\ ParkedMerge /\ ParkedCleanup /\ ParkedContact

SpecFast == InitSpecFast /\ [][NextFast]_vars

(***************************************************************************)
(* cache.py: two threads writing the analysis of the same video            *)
(***************************************************************************)
Writers == {1, 2}

\* an earlier request that cached an analysis for the video
Earlier == 3

\* the dict objects: one a writer may create, and the one cached earlier
Objects == Writers \cup {Earlier}

WriterOps == {"cache_smart_selection", "cache_analysis"}

\* {}: a dict without fields
EmptyDict == [analysis |-> 0, smart_selection |-> 0]

InitRace ==
    /\ \E ops \in [Writers -> WriterOps] :
          wr = [w \in Writers |-> [op |-> ops[w], pc |-> "start", ref |-> 0]]
    /\ stored \in {0, Earlier}
    /\ \E sel \in {0, Earlier} :
          dicts = [o \in Objects |->
                     IF o = Earlier /\ stored = Earlier
                     THEN [analysis |-> Earlier, smart_selection |-> sel]
                     ELSE EmptyDict]
    /\ lastStore = 0

\* cache_smart_selection: analysis = self.get_analysis(video_id) or {}
\* CacheManager.get returns the cached object itself, not a copy
ReadAnalysis(w) ==
    /\ wr[w].op = "cache_smart_selection" /\ wr[w].pc = "start"
    /\ wr' = [wr EXCEPT ![w].pc = "read",
                        ![w].ref = IF stored # 0 THEN stored ELSE w]
    /\ UNCHANGED <<dicts, stored, lastStore>>
    /\ UNCHANGED notRaceVars

\* cache_smart_selection: analysis['smart_selection'] = smart_selection_data
SetField(w) ==
    /\ wr[w].op = "cache_smart_selection" /\ wr[w].pc = "read"
    /\ dicts' = [dicts EXCEPT ![wr[w].ref].smart_selection = w]
    /\ wr' = [wr EXCEPT ![w].pc = "mutated"]
    /\ UNCHANGED <<stored, lastStore>>
    /\ UNCHANGED notRaceVars

\* cache_smart_selection: self.cache_analysis(video_id, analysis)
StoreSelection(w) ==
    /\ wr[w].op = "cache_smart_selection" /\ wr[w].pc = "mutated"
    /\ stored' = wr[w].ref
    /\ lastStore' = w
    /\ wr' = [wr EXCEPT ![w].pc = "done"]
    /\ UNCHANGED dicts
    /\ UNCHANGED notRaceVars

\* cache_analysis(video_id, analysis_data) with the writer's own dict:
\* cache_manager.set, one step under the lock
StoreAnalysis(w) ==
    /\ wr[w].op = "cache_analysis" /\ wr[w].pc = "start"
    /\ dicts' = [dicts EXCEPT ![w] = [analysis |-> w, smart_selection |-> 0]]
    /\ stored' = w
    /\ lastStore' = w
    /\ wr' = [wr EXCEPT ![w].pc = "done", ![w].ref = w]
    /\ UNCHANGED notRaceVars

NextRace ==
    \E w \in Writers :
        \/ ReadAnalysis(w)
        \/ SetField(w)
        \/ StoreSelection(w)
        \/ StoreAnalysis(w)

InitSpecRace == InitRace /\ InitCache /\ ParkedDownload /\ ParkedSelect /\ ParkedScore /\ ParkedAnalyze /\ ParkedFast /\ ParkedMerge /\ ParkedCleanup /\ ParkedContact

SpecRace == InitSpecRace /\ [][NextRace]_vars

(***************************************************************************)
(* ffmpeg_service.py: FFmpegService.merge_video_audio on its own           *)
(***************************************************************************)

\* how subprocess.run ends: the exit status, TimeoutExpired, or another
\* exception (the executable cannot be started)
ExitCodes == {"exit0", "nonzero", "timeout", "OSError"}

\* the output file: os.path.exists and os.path.getsize
OutputStates == {"missing", "empty", "content"}

\* the checks before the try block: FFmpegNotFoundError without the tool,
\* MergeError when an input file does not exist
merge_precheck(available, fs) ==
    IF ~is_available(available) THEN "FFmpegNotFoundError"
    ELSE IF ~fs.video THEN "MergeError"
    ELSE IF ~fs.audio THEN "MergeError"
    ELSE "subprocess.run"

\* a mutant of merge_outcome: the output file is not verified
merge_outcome_unverified(code, output) ==
    IF code = "exit0" THEN "path" ELSE "MergeError"

\* the try block after subprocess.run: TimeoutExpired and any other
\* exception become MergeError, so do a non-zero returncode and an output
\* file that does not exist or has size 0
merge_outcome(code, output) ==
    IF code \in {"timeout", "OSError"} THEN "MergeError"
    ELSE IF code # "exit0" THEN "MergeError"
    ELSE IF output = "missing" \/ output = "empty" THEN "MergeError"
    ELSE "path"

\* _cleanup_files([video_path, audio_path]) on success when cleanup_temp
merge_cleanup(fs, cleanup_temp, output) ==
    IF cleanup_temp THEN [video |-> FALSE, audio |-> FALSE, output |-> output]
    ELSE [fs EXCEPT !.output = output]

InitMerge ==
    /\ \E a \in BOOLEAN, c \in BOOLEAN :
          merge = [NotMerging EXCEPT !.available = a, !.cleanup_temp = c]
    /\ mfs \in [video : BOOLEAN, audio : BOOLEAN, output : OutputStates]

\* merge_video_audio(video_path, audio_path, output_path, cleanup_temp) up
\* to subprocess.run
MergeCall ==
    /\ merge.pc = "idle"
    /\ merge' = [merge EXCEPT
                   !.inputs = <<mfs.video, mfs.audio>>,
                   !.pc = IF merge_precheck(merge.available, mfs) = "subprocess.run"
                          THEN "subprocess.run" ELSE "done",
                   !.result = IF merge_precheck(merge.available, mfs) = "subprocess.run"
                              THEN "none" ELSE merge_precheck(merge.available, mfs)]
    /\ UNCHANGED mfs
    /\ UNCHANGED notMergeVars

\* subprocess.run ends and merge_video_audio returns or raises
MergeReturn(code, output) ==
    /\ merge.pc = "subprocess.run"
    /\ merge' = [merge EXCEPT !.pc = "done", !.code = code,
                              !.result = merge_outcome(code, output)]
    /\ mfs' = IF merge_outcome(code, output) = "path"
              THEN merge_cleanup(mfs, merge.cleanup_temp, output)
              ELSE [mfs EXCEPT !.output = output]
    /\ UNCHANGED notMergeVars

NextMerge ==
    \/ MergeCall
    \/ \E code \in ExitCodes, output \in OutputStates : MergeReturn(code, output)

InitSpecMerge == InitMerge /\ InitCache /\ ParkedDownload /\ ParkedSelect /\ ParkedScore /\ ParkedAnalyze /\ ParkedFast /\ ParkedRace /\ ParkedCleanup /\ ParkedContact

SpecMerge == InitSpecMerge /\ [][NextMerge]_vars

(***************************************************************************)
(* cache.py: cleanup_all_caches over video_cache and general_cache         *)
(***************************************************************************)

\* the dicts a cache can hold: up to max_size entries, inserted at times
\* that do not decrease
AgedCaches ==
    {[i \in 1..Len(l) |-> Entry(i, l[i], Payload(i, l[i]))] :
        l \in {m \in UNION {[1..n -> 0..1] : n \in 0..max_size} :
                  \A i \in 1..Len(m), j \in 1..Len(m) : i < j => m[i] <= m[j]}}

NoStats == [hits |-> 0, misses |-> 0, stores |-> 0, cleanups |-> 0, evictions |-> 0]

\* VideoAnalysisCache.cleanup: self.cache_manager.cleanup_expired(), and no
\* return statement: the count is dropped and None is returned
video_cache_cleanup(c, t) ==
    [cache |-> cleanup_expired(c, NoStats, t).cache, value |-> None]

\* sum(results.values()): 0 + None raises TypeError
py_sum(values) ==
    IF \E i \in 1..Len(values) : values[i] = None THEN <<"TypeError">>
    ELSE <<"int">>

InitCleanup ==
    /\ vcm \in AgedCaches
    /\ gcm \in AgedCaches
    /\ ctime = 0
    /\ cleanup = NoCleanup

\* cleanup_all_caches(): both caches are cleaned, each inside its own
\* try/except; the sum of the results is taken outside of them
CleanupAllCaches ==
    /\ ~cleanup.done
    /\ LET v == video_cache_cleanup(vcm, ctime)
           g == cleanup_expired(gcm, NoStats, ctime)
           results == [video_cache |-> v.value, general_cache |-> <<g.value>>]
       IN  /\ vcm' = v.cache
           /\ gcm' = g.cache
           /\ cleanup' =
                [done |-> TRUE,
                 before |-> [video_cache |-> Len(vcm), general_cache |-> Len(gcm)],
                 raised |-> IF py_sum(<<results.video_cache, results.general_cache>>) = <<"TypeError">>
                            THEN "TypeError" ELSE "none",
                 results |-> IF py_sum(<<results.video_cache, results.general_cache>>) = <<"TypeError">>
                             THEN [video_cache |-> None, general_cache |-> None]
                             ELSE results]
    /\ UNCHANGED ctime
    /\ UNCHANGED notCleanupVars

\* time passes before the cleanup is called
CleanupTick ==
    /\ ~cleanup.done /\ ctime < MaxTime
    /\ ctime' = ctime + 1
    /\ UNCHANGED <<vcm, gcm, cleanup>>
    /\ UNCHANGED notCleanupVars

NextCleanup == CleanupAllCaches \/ CleanupTick

InitSpecCleanup == InitCleanup /\ InitCache /\ ParkedDownload /\ ParkedSelect /\ ParkedScore /\ ParkedAnalyze /\ ParkedFast /\ ParkedRace /\ ParkedMerge /\ ParkedContact

SpecCleanup == InitSpecCleanup /\ [][NextCleanup]_vars

(***************************************************************************)
(* main.py: contact_endpoint, the rate limit per client IP                 *)
(***************************************************************************)
window_seconds == 2     \* window_seconds = 60, scaled down
max_requests == 2       \* RATE_LIMIT_PER_MIN (default 5), scaled down
MaxClock == 3
MaxSubmits == 4

ClientIPs == {"ip1", "ip2"}

\* [ts for ts in timestamps if now - ts < window_seconds]
recent(timestamps, t) == SelectSeq(timestamps, LAMBDA ts : t - ts < window_seconds)

\* a mutant of rate_limit: one request more is let through
rate_limit_off_by_one(timestamps, t) ==
    IF Len(recent(timestamps, t)) > max_requests
    THEN [code |-> 429, timestamps |-> timestamps]
    ELSE [code |-> 0, timestamps |-> Append(recent(timestamps, t), t)]

\* the rate limit of contact_endpoint: with max_requests recent timestamps
\* the request is refused with 429 and _rate_limit_cache is not written;
\* otherwise now is appended to the recent timestamps and they are stored
rate_limit(timestamps, t) ==
    IF Len(recent(timestamps, t)) >= max_requests
    THEN [code |-> 429, timestamps |-> timestamps]
    ELSE [code |-> 0, timestamps |-> Append(recent(timestamps, t), t)]

InitContact ==
    /\ limiter = [ip \in ClientIPs |-> <<>>]
    /\ clock = 0
    /\ brevo_api_key \in BOOLEAN
    /\ contact = NoContact

\* POST /api/contact from client_ip: validation (400), the rate limit (429),
\* the mail service not configured (500), else the mail is sent (200)
Submit(client_ip, valid) ==
    /\ contact.submits < MaxSubmits
    /\ LET r == rate_limit(limiter[client_ip], clock)
           code == IF ~valid THEN 400
                   ELSE IF r.code = 429 THEN 429
                   ELSE IF ~brevo_api_key THEN 500
                   ELSE 200
       IN  /\ limiter' = IF valid THEN [limiter EXCEPT ![client_ip] = r.timestamps]
                         ELSE limiter
           /\ contact' = [submits |-> contact.submits + 1, ip |-> client_ip, code |-> code,
                          refused |-> contact.refused + IF code = 429 THEN 1 ELSE 0,
                          accepted |-> IF code = 200
                                       THEN [contact.accepted EXCEPT
                                               ![client_ip] = Append(@, clock)]
                                       ELSE contact.accepted]
    /\ UNCHANGED <<clock, brevo_api_key>>
    /\ UNCHANGED notContactVars

\* time.time() moves on
ContactTick ==
    /\ clock < MaxClock
    /\ clock' = clock + 1
    /\ UNCHANGED <<limiter, brevo_api_key, contact>>
    /\ UNCHANGED notContactVars

NextContact ==
    \/ \E ip \in ClientIPs, valid \in BOOLEAN : Submit(ip, valid)
    \/ ContactTick

InitSpecContact == InitContact /\ InitCache /\ ParkedDownload /\ ParkedSelect /\ ParkedScore /\ ParkedAnalyze /\ ParkedFast /\ ParkedRace /\ ParkedMerge /\ ParkedCleanup

SpecContact == InitSpecContact /\ [][NextContact]_vars

(***************************************************************************)
(* CacheManager: the claims                                                *)
(***************************************************************************)
\* the step is a completed get(k) / set(k)
GetCall(k) == calls'.get = calls.get + 1 /\ ret'.op = "get" /\ ret'.key = k
SetCall(k) == calls'.set = calls.set + 1 /\ ret'.op = "set" /\ ret'.key = k

Age(c, k, t) == t - Lookup(c, k).timestamp

\* C5: from an empty cache, after max_size + 1 set calls on distinct keys the
\* cache holds exactly max_size entries and the one missing key is the first
\* one that was inserted.
C5_OverflowEvictsFirstInserted ==
    (run.pure /\ Len(run.keys) = max_size + 1)
        => /\ Len(cache) = max_size
           /\ KeysOf(cache) = {run.keys[i] : i \in 2..(max_size + 1)}

C5_Witness ==
    /\ run.pure /\ Len(run.keys) = max_size + 1
    /\ ret.op = "set" /\ ret.log[1].ev = "EVICTED"
    /\ ~HasKey(cache, run.keys[1])

\* C6: a get(k) on an entry whose age has reached ttl returns a miss, removes
\* the entry, adds exactly one to misses and leaves hits unchanged.
C6_ExpiredGetIsMiss ==
    [][\A k \in Keys :
        (GetCall(k) /\ HasKey(cache, k) /\ Age(cache, k, now) >= ttl)
            => /\ ret'.value = None
               /\ ~HasKey(cache', k)
               /\ stats'.misses = stats.misses + 1
               /\ stats'.hits = stats.hits]_vars

C6_Witness ==
    /\ ret.op = "get" /\ ret.log[1].ev = "EXPIRED"
    /\ ret.value = None /\ stats.misses = 1 /\ stats.hits = 0

\* C7: a get(k) on a present entry younger than ttl returns the value last
\* stored under k, adds one to hits and changes neither misses nor any entry;
\* a get on an absent key returns a miss, adds one to misses and changes no
\* entry; get never returns a value whose age is >= ttl.  (An entry's data is
\* the payload of the last set on its key: a set(k) writes its payload, and
\* no other call changes an entry that it keeps.)
C7_GetSemantics ==
    [][\A k \in Keys :
        /\ (GetCall(k) /\ HasKey(cache, k) /\ Age(cache, k, now) < ttl)
              => /\ ret'.value = Lookup(cache, k).data
                 /\ stats'.hits = stats.hits + 1
                 /\ stats'.misses = stats.misses
                 /\ cache' = cache
        /\ (GetCall(k) /\ ~HasKey(cache, k))
              => /\ ret'.value = None
                 /\ stats'.misses = stats.misses + 1
                 /\ stats'.hits = stats.hits
                 /\ cache' = cache
        /\ (GetCall(k) /\ ret'.value # None)
              => HasKey(cache, k) /\ Age(cache, k, now) < ttl
        /\ HasKey(cache', k)
              => IF SetCall(k)
                 THEN Lookup(cache', k) = Entry(k, now, Payload(k, now))
                 ELSE HasKey(cache, k) /\ Lookup(cache', k) = Lookup(cache, k)]_vars

C7_Witness ==
    /\ ret.op = "get" /\ ret.log[1].ev = "HIT"
    /\ ret.value = Lookup(cache, ret.key).data
    /\ stats.hits = 1 /\ stats.misses = 0

\* C8: set(k, v) on a key that is already present never removes another
\* entry and never increments evictions, whatever the size, and leaves hits
\* and misses unchanged.
C8_OverwriteNeverEvicts ==
    [][\A k \in Keys :
        (SetCall(k) /\ HasKey(cache, k))
            => /\ stats'.evictions = stats.evictions
               /\ \A j \in KeysOf(cache) : HasKey(cache', j)
               /\ stats'.hits = stats.hits
               /\ stats'.misses = stats.misses]_vars

\* C9: every public operation acquires the lock, runs, releases it and
\* returns: no thread waits at `with self._lock:` for a lock that no other
\* thread holds.
C9_NoWaitOnOwnLock ==
    \A t \in Threads :
        (tpc[t] = "get_info.get_stats" /\ lock # NoThread) => lock # t

(***************************************************************************)
(* smart_download: the claims.  The file system is taken to be sound:      *)
(* shutil.rmtree of the workspace does not fail.                           *)
(***************************************************************************)

\* a transfer that ended without bytes: it raised, or left no file or an
\* empty one
Fruitless(tr) == tr.st = "done" /\ tr.end # "bytes"

\* a transfer that ended with bytes written
Fruitful(tr) == tr.st = "done" /\ tr.end = "bytes"

\* C1: every invocation that has created its workspace removes the directory
\* and every file beneath it on every exit path: no terminal state of the
\* operation is reached in which the workspace still exists.
C1_NoTerminalStateWithWorkspace ==
    (Terminal /\ temp_dir) => (~ws.exists /\ ws.files = {})

C3_MergeOnlyAfterJoin ==
    /\ (dpc \in {"merge_video_audio", "subprocess.run"} \/ tool.calls > 0)
          => (plan = "merge" /\ Succeeded(video) /\ Succeeded(audio)
              /\ Fruitful(video) /\ Fruitful(audio))
    /\ plan = "progressive"
          => /\ tool.calls = 0
             /\ audio = NoTransfer
             /\ dpc \in {"respond", "returned"} => Fruitful(video)

\* the merge tool runs, the audio transfer having ended before the video
\* transfer
C3_Witness ==
    /\ plan = "merge" /\ dpc = "subprocess.run"
    /\ tool.calls = 1 /\ tool.alive
    /\ order = <<"audio", "video">>

C10_NoneIffAllEmpty ==
    selection # NotCalled
      => (selection = NoneRecord
            <=> (streams.progressive = <<>> /\ streams.video = <<>>
                 /\ streams.audio = <<>>))

\* C10 amended: select returns None if and only if the single-file list is
\* empty and the video-only list or the audio-only list is empty (no
\* single-file candidate and no video-only + audio-only pair).
C10_NoneIffNoCandidateAndNoPair ==
    selection # NotCalled
      => (selection = NoneRecord
            <=> (streams.progressive = <<>>
                 /\ (streams.video = <<>> \/ streams.audio = <<>>)))

\* select returned None although a video-only stream was there
C10_Witness ==
    /\ selection = NoneRecord
    /\ streams.progressive = <<>> /\ streams.video # <<>> /\ streams.audio = <<>>

\* the number of lines of the first stream of a list, 0 for an empty list
ResOfBest(list) == IF list = <<>> THEN 0 ELSE list[1].stream.resolution[1]

\* a video-only and an audio-only stream are there
HasPair == streams.video # <<>> /\ streams.audio # <<>>

\* the plan is the merge of the first video-only and the first audio-only stream
IsMergeOfBest ==
    /\ selection.type = "merge"
    /\ selection.video_stream = streams.video[1].stream
    /\ selection.audio_stream = streams.audio[1].stream

\* the plan is the first single-file stream alone
IsBestSingleFile ==
    /\ selection.type = "progressive"
    /\ selection.video_stream = streams.progressive[1].stream

\* C11: when the video-only and audio-only lists are both non-empty and the
\* resolution of the best video-only stream exceeds 1.5 times that of the
\* best single-file stream (0 when there is none), or the latter is below
\* 720, select returns the merge of the first video-only and the first
\* audio-only stream, for both values of prefer_progressive.
C11_RuleOneHasPriority ==
    (/\ selection # NotCalled
     /\ HasPair
     /\ \/ 2 * ResOfBest(streams.video) > 3 * ResOfBest(streams.progressive)
        \/ ResOfBest(streams.progressive) < 720)
      => IsMergeOfBest

\* single file preferred and good enough (720), yet the video-only stream has
\* more than 1.5 times its lines: the merge is selected
C11_Witness ==
    /\ streams.prefer_progressive /\ HasPair
    /\ ResOfBest(streams.progressive) = 720 /\ ResOfBest(streams.video) = 2160
    /\ Len(streams.video) = 2 /\ streams.video[2] # streams.video[1]
    /\ selection # NotCalled /\ IsMergeOfBest

\* C12: with prefer_progressive set, a best single-file stream of at least
\* 720 lines and a best video-only resolution of at most 1.5 times that
\* (equality included), select returns the single-file plan of the best
\* single-file stream, even though a video-only + audio-only pair is there.
C12_PreferredSingleFileWins ==
    (/\ selection # NotCalled
     /\ streams.prefer_progressive
     /\ ResOfBest(streams.progressive) >= 720
     /\ 2 * ResOfBest(streams.video) <= 3 * ResOfBest(streams.progressive))
      => IsBestSingleFile

\* 1080 against 720 (exactly 1.5 times), a pair is there: single file
C12_Witness ==
    /\ streams.prefer_progressive /\ HasPair
    /\ ResOfBest(streams.progressive) = 720 /\ ResOfBest(streams.video) = 1080
    /\ selection # NotCalled /\ IsBestSingleFile

\* C13: with prefer_progressive unset and a video-only and an audio-only
\* stream present, select returns the merge of the best of each, whatever
\* single-file streams exist.
C13_QualityPreferredAlwaysMerges ==
    (selection # NotCalled /\ ~streams.prefer_progressive /\ HasPair)
      => IsMergeOfBest

\* the single-file stream is as good as the video-only one: the merge comes
\* from the fallback (option 3)
C13_Witness ==
    /\ ~streams.prefer_progressive /\ HasPair
    /\ ResOfBest(streams.progressive) = 1080 /\ ResOfBest(streams.video) = 1080
    /\ selection # NotCalled /\ IsMergeOfBest /\ selection.rule = 3

\* C14: when the video-only list or the audio-only list is empty and the
\* single-file list is not, select returns the single-file plan of the best
\* single-file stream, for either prefer_progressive and any resolution.
C14_NoPairFallsBackToSingleFile ==
    (selection # NotCalled /\ ~HasPair /\ streams.progressive # <<>>)
      => IsBestSingleFile

\* video-only streams without audio, single file below 720: the last resort
C14_Witness ==
    /\ streams.video # <<>> /\ streams.audio = <<>>
    /\ ResOfBest(streams.progressive) = 480
    /\ selection # NotCalled /\ IsBestSingleFile /\ selection.rule = 4

\* C15: every plan select returns has its video stream, taken from the
\* lists; it is a merge plan exactly when it has an audio stream, exactly
\* when merge_required is set, and a progressive plan otherwise.
C15_PlanIsWellFormed ==
    (selection # NotCalled /\ selection # NoneRecord)
      => /\ selection.type \in {"merge", "progressive"}
         /\ selection.video_stream # NoneRecord
         /\ \E l \in {streams.progressive, streams.video} :
               \E i \in 1..Len(l) : selection.video_stream = l[i].stream
         /\ (selection.type = "merge") <=> (selection.audio_stream # NoneRecord)
         /\ (selection.audio_stream # NoneRecord) <=> selection.merge_required
         /\ (selection.type = "progressive")
               <=> (selection.audio_stream = NoneRecord /\ ~selection.merge_required)
         /\ selection.type = "merge"
               => \E i \in 1..Len(streams.audio) :
                     selection.audio_stream = streams.audio[i].stream

\* a progressive plan was returned although a pair was there
C15_Witness ==
    /\ selection # NotCalled /\ selection # NoneRecord
    /\ selection.type = "progressive" /\ ~selection.merge_required
    /\ HasPair

(***************************************************************************)
(* the scoring functions: the claims                                       *)
(***************************************************************************)

\* the tier a number falls in: the greatest threshold it reaches, 0 if none
TierOf(n, thresholds) ==
    IF \E t \in thresholds : n >= t
    THEN CHOOSE t \in thresholds : n >= t /\ \A u \in thresholds : n >= u => u <= t
    ELSE 0

VideoTiers == {480, 720, 1080, 1440, 2160}
AudioTiers == {96, 128, 192, 256, 320}

\* C16: for two video resolutions r1 < r2 in different tiers among >=480,
\* >=720, >=1080, >=1440, >=2160, with the same frame rate and the same
\* codec, the score of r1 is less than the score of r2.
C16_VideoScoreRisesWithTier ==
    (/\ scores.done /\ subject.kind = "video"
     /\ subject.a.resolution # None /\ subject.b.resolution # None
     /\ subject.a.resolution[1] < subject.b.resolution[1]
     /\ TierOf(subject.a.resolution[1], VideoTiers) # 0
     /\ TierOf(subject.a.resolution[1], VideoTiers) # TierOf(subject.b.resolution[1], VideoTiers)
     /\ subject.a.fps = subject.b.fps
     /\ subject.a.video_codec = subject.b.video_codec)
      => scores.a < scores.b

\* 720 against 1080 lines, both at 60 fps in AV1: 480 < 680
C16_Witness ==
    /\ scores.done /\ subject.kind = "video"
    /\ subject.a.resolution = Resolution(720) /\ subject.b.resolution = Resolution(1080)
    /\ subject.a.fps = 60 /\ subject.b.fps = 60
    /\ subject.a.video_codec = "av01" /\ subject.b.video_codec = "av01"
    /\ scores.a = 480 /\ scores.b = 680

\* C17: for two audio bitrates b1 < b2 in different tiers among >=96, >=128,
\* >=192, >=256, >=320 kbps, with the same codec, the score of b1 is less
\* than the score of b2.
C17_AudioScoreRisesWithTier ==
    (/\ scores.done /\ subject.kind = "audio"
     /\ subject.a.abr # None /\ subject.b.abr # None
     /\ subject.a.abr[1] < subject.b.abr[1]
     /\ TierOf(subject.a.abr[1], AudioTiers) # 0
     /\ TierOf(subject.a.abr[1], AudioTiers) # TierOf(subject.b.abr[1], AudioTiers)
     /\ subject.a.audio_codec = subject.b.audio_codec)
      => scores.a < scores.b

\* 128 against 192 kbps, both AAC: 170 < 220
C17_Witness ==
    /\ scores.done /\ subject.kind = "audio"
    /\ subject.a.abr = Bitrate(128) /\ subject.b.abr = Bitrate(192)
    /\ subject.a.audio_codec = "aac" /\ subject.b.audio_codec = "aac"
    /\ scores.a = 170 /\ scores.b = 220

(***************************************************************************)
(* analyze_streams: the claims                                             *)
(***************************************************************************)

AllEmpty(r) == r.progressive = <<>> /\ r.video = <<>> /\ r.audio = <<>>

\* the itags of a list (the discovery positions of its streams)
Itags(list) == {list[i].stream.itag : i \in 1..Len(list)}

\* equal scores stand in discovery order
TiesInDiscoveryOrder(list) ==
    \A i, j \in 1..Len(list) :
        (i < j /\ list[i].quality_score = list[j].quality_score)
          => list[i].stream.itag < list[j].stream.itag

\* C18: analyze_streams returns three empty lists on an empty stream list,
\* and also when the enumeration fails at any point, including after one or
\* two categories have been collected.
C18_FailureGivesThreeEmptyLists ==
    (analysis.done /\ (AllEmpty(yt) \/ yt.fail # NoFail)) => AllEmpty(analysis)

\* C19: no list returned by analyze_streams holds a single-file or video-only
\* stream without resolution, or an audio-only stream without bitrate.
C19_StreamsWithoutDimensionExcluded ==
    analysis.done
      => /\ \A i \in 1..Len(analysis.progressive) :
               analysis.progressive[i].stream.resolution # None
         /\ \A i \in 1..Len(analysis.video) :
               analysis.video[i].stream.resolution # None
         /\ \A i \in 1..Len(analysis.audio) :
               analysis.audio[i].stream.abr # None

\* C20: on a pass without exception each of the three lists holds the
\* analyzed streams by quality_score descending, and streams of equal
\* quality_score stand in their discovery order.
C20_SortedDescendingAndStable ==
    (analysis.done /\ yt.fail = NoFail)
      => /\ SortedByScore(analysis.progressive) /\ TiesInDiscoveryOrder(analysis.progressive)
         /\ SortedByScore(analysis.video) /\ TiesInDiscoveryOrder(analysis.video)
         /\ SortedByScore(analysis.audio) /\ TiesInDiscoveryOrder(analysis.audio)
         /\ Cardinality(Itags(analysis.video)) = Len(analysis.video)
         /\ Itags(analysis.video)
              = {yt.video[i].itag : i \in {k \in 1..Len(yt.video) : yt.video[k].resolution # None}}
         /\ Itags(analysis.audio) = {yt.audio[i].itag : i \in 1..Len(yt.audio)}

\* the video-only streams were discovered worst first and come out best
\* first; the two audio streams score the same and keep their order
C20_Witness ==
    /\ analysis.done /\ yt.fail = NoFail
    /\ Len(yt.video) = 2
    /\ yt.video[1].resolution = Resolution(480) /\ yt.video[2].resolution = Resolution(1080)
    /\ Len(analysis.video) = 2
    /\ analysis.video[1].stream.itag = 2 /\ analysis.video[2].stream.itag = 1
    /\ Len(analysis.audio) = 2
    /\ analysis.audio[1].quality_score = analysis.audio[2].quality_score
    /\ analysis.audio[1].stream.itag = 1 /\ analysis.audio[2].stream.itag = 2

(***************************************************************************)
(* the two download endpoints: further claims                              *)
(***************************************************************************)

\* the handler returns, or is about to return, its StreamingResponse
ReturnsNormally == dpc \in {"respond", "returned", "returned None"}

\* something the invocation needed has failed
SomethingFailed ==
    \/ Fruitless(video) \/ Fruitless(audio)
    \/ tool.state \in {"exit0_no_output", "nonzero", "timeout"}
    \/ plan = "unknown"
    \/ plan = "merge" /\ ~ffmpeg

\* C21: a failing invocation of /api/download or /api/smart-download never
\* returns normally: a response is returned only when every transfer that was
\* run wrote bytes and, for a merge, the tool produced its output, and the
\* file to stream is in the workspace; every exception caught by the handler
\* ends in an HTTPException, and every end is a response or an HTTPException.
C21_FailureSurfacesError ==
    /\ SomethingFailed => (~ReturnsNormally /\ gen = "none")
    /\ dpc = "raised"
         => /\ outcome.kind \in {"HTTPException 404", "HTTPException 500"}
            /\ outcome.cause # "none"
            /\ gen = "none"
    /\ dpc = "respond"
         => IF plan = "merge" THEN "output" \in ws.files ELSE "video" \in ws.files
    /\ outcome.kind = "StreamingResponse"
         => /\ dpc = "returned" /\ Fruitful(video)
            /\ plan = "merge" => (Fruitful(audio) /\ tool.state = "exit0_output")
    /\ outcome.cause # "none"
         => (dpc = "raised"
             /\ outcome.kind \in {"HTTPException 404", "HTTPException 500"})
    /\ Terminal
         => outcome.kind \in {"StreamingResponse", "HTTPException 404", "HTTPException 500"}

(***************************************************************************)
(* get_fast_smart_selection: the claims                                    *)
(***************************************************************************)

\* no option of smart_select_best_option applies to the video
NoOptionApplies ==
    asset.progressive = <<>> /\ (asset.video = <<>> \/ asset.audio = <<>>)

\* C22: 'No suitable streams found' is reported only when no single-file
\* stream and no video-only + audio-only pair exists; an exception inside
\* the selection or a remote service that fails is never reported so.
C22_NotFoundOnlyWhenNoOptionApplies ==
    (fast.calls > 0 /\ fast.report = "No suitable streams found")
      => (fast.raised = "none" /\ NoOptionApplies)

\* C23: when the cache lookup or the cache store raises, the call still
\* returns the plan smart_select_best_option computes, as on a cache miss.
C23_CacheFailureStillSelects ==
    (fast.calls > 0 /\ fast.raised \in {"get_analysis", "cache_smart_selection"})
      => fast.result = smart_select_best_option(asset.progressive, asset.video,
                                                asset.audio, fast.prefer_progressive)

(***************************************************************************)
(* VideoAnalysisCache writers: the claims                                  *)
(***************************************************************************)

BothDone == \A w \in Writers : wr[w].pc = "done"

\* the bundle the cache holds for the video
Bundle == dicts[stored]

\* the writer whose store did not run last
Other(w) == CHOOSE o \in Writers : o # w

\* C24: after two writers raced on the same key, the bundle stored is the
\* bundle of the writer whose store ran last (the field it writes is its
\* own) and no field of it comes from the other writer.
C24_LastWriterBundleWins ==
    BothDone =>
        /\ Bundle.analysis # Other(lastStore)
        /\ Bundle.smart_selection # Other(lastStore)
        /\ wr[lastStore].op = "cache_smart_selection" => Bundle.smart_selection = lastStore
        /\ wr[lastStore].op = "cache_analysis" => Bundle.analysis = lastStore

(***************************************************************************)
(* smart_download without the merge tool: the claims                       *)
(***************************************************************************)

MergeSucceeds ==
    /\ merge.available /\ merge.inputs = <<TRUE, TRUE>>
    /\ merge.code = "exit0" /\ mfs.output = "content"

\* C26 as stated: the path is returned iff the merge succeeds, and in every
\* other case the call fails with MergeError.
C26_PathIffSuccessElseMergeError ==
    merge.pc = "done"
      => /\ merge.result = "path" <=> MergeSucceeds
         /\ merge.result # "path" => merge.result = "MergeError"

\* C26, amended: the path is returned iff the merge succeeds; without the
\* tool the call fails with FFmpegNotFoundError, in every other case (missing
\* input, non-zero exit, missing or empty output, timeout) with MergeError.
C26_PathIffSuccessElseToolOrMergeError ==
    merge.pc = "done"
      => /\ merge.result = "path" <=> MergeSucceeds
         /\ merge.result # "path"
              => merge.result = IF merge.available THEN "MergeError"
                                ELSE "FFmpegNotFoundError"

C26_Witness ==
    /\ merge.pc = "done" /\ merge.available /\ merge.inputs = <<TRUE, TRUE>>
    /\ merge.code = "exit0" /\ mfs.output = "empty"
    /\ merge.result = "MergeError"

(***************************************************************************)
(* CacheManager: eviction by insertion time                                *)
(***************************************************************************)

\* every entry of the cache d was in c with the same timestamp
SameTimestamps(c, d) ==
    \A i \in 1..Len(d) :
        HasKey(c, d[i].key) /\ Lookup(c, d[i].key).timestamp = d[i].timestamp

\* e is an entry of c of smallest insertion time
IsOldest(c, e) ==
    HasKey(c, e) /\ \A m \in 1..Len(c) : Lookup(c, e).timestamp <= c[m].timestamp

\* C27: a get changes no entry's insertion timestamp, and a set on a full
\* cache removes exactly one entry, one of smallest insertion time, whether
\* or not it was the entry most recently read.
C27_EvictionIgnoresReads ==
    [][\A k \in Keys :
        /\ GetCall(k) => SameTimestamps(cache, cache')
        /\ (SetCall(k) /\ Len(cache) >= max_size)
              => \E e \in KeysOf(cache) :
                    /\ IsOldest(cache, e)
                    /\ ret'.log[1] = Log("EVICTED", e)
                    /\ KeysOf(cache') = (KeysOf(cache) \ {e}) \cup {k}
                    /\ stats'.evictions = stats.evictions + 1]_vars

\* the only entry that was read is the one evicted; the entry that stays
\* was never read
C27_Witness ==
    /\ ret.op = "set" /\ ret.log[1] = Log("EVICTED", lastHit)
    /\ stats.hits = 1 /\ calls.get = 1
    /\ Len(cache) = max_size

(***************************************************************************)
(* smart_select_best_option: quality of the selected plan                  *)
(***************************************************************************)

\* the number of lines of the video stream of the selected plan
ResOfPlan == selection.video_stream.resolution[1]

\* C28: with prefer_progressive unset, the resolution of the selected plan is
\* never lower than that of the best single-file stream.
C28_NeverBelowBestSingleFile ==
    (/\ selection # NotCalled /\ selection # NoneRecord
     /\ ~streams.prefer_progressive)
      => ResOfPlan >= ResOfBest(streams.progressive)

(***************************************************************************)
(* calculate_video_quality_score: the formula                              *)
(***************************************************************************)

\* C29: the video score is the tier base (1000/800/600/400/200 from 2160,
\* 1440, 1080, 720, 480 lines, else lines \div 10) plus one frame-rate bonus
\* (50 from 60 fps, else 25 from 30 fps, else 0) plus one codec bonus (30 for
\* AV1, else 20 for VP9, else 10 for H.264, named h264 or avc1, else 0); a
\* missing field adds 0 and the score is not negative.
C29_VideoScoreFormula ==
    (scores.done /\ subject.kind = "video")
      => LET lines == IF subject.a.resolution = None THEN 0
                      ELSE subject.a.resolution[1]
             base  == IF lines >= 2160 THEN 1000
                      ELSE IF lines >= 1440 THEN 800
                      ELSE IF lines >= 1080 THEN 600
                      ELSE IF lines >= 720 THEN 400
                      ELSE IF lines >= 480 THEN 200
                      ELSE lines \div 10
             rate  == IF subject.a.fps >= 60 THEN 50
                      ELSE IF subject.a.fps >= 30 THEN 25 ELSE 0
             codec == IF subject.a.video_codec = "av01" THEN 30
                      ELSE IF subject.a.video_codec = "vp9" THEN 20
                      ELSE IF subject.a.video_codec \in {"h264", "avc1"} THEN 10
                      ELSE 0
         IN  scores.a = base + rate + codec /\ scores.a >= 0

(***************************************************************************)
(* smart_download: cleanup and the transfers                               *)
(***************************************************************************)

Pending(tr) == tr.st \in {"queued", "running"}

\* C30: once the workspace has been removed no transfer of the operation is
\* queued or running; so when one transfer fails, cleanup starts only after
\* the other one is over.
C30_NoCleanupDuringTransfer ==
    (temp_dir /\ ~ws.exists) => (~Pending(video) /\ ~Pending(audio))

\* the video transfer failed first, the audio transfer ended after it, and
\* only then the workspace was removed
C30_Witness ==
    /\ plan = "merge" /\ dpc = "raised" /\ outcome.cause = "DownloadError"
    /\ Failed(video) /\ Succeeded(audio)
    /\ order = <<"video", "audio">>
    /\ temp_dir /\ ~ws.exists

(***************************************************************************)
(* cleanup_all_caches: the claims                                          *)
(***************************************************************************)

\* C31: cleanup_all_caches does not raise and returns, for each of the two
\* caches, the number of expired entries this call removed from it.
C31_CleanupReturnsCounts ==
    cleanup.done
      => /\ cleanup.raised = "none"
         /\ cleanup.results.video_cache = <<cleanup.before.video_cache - Len(vcm)>>
         /\ cleanup.results.general_cache = <<cleanup.before.general_cache - Len(gcm)>>

(***************************************************************************)
(* get_fast_smart_selection: the cached plan and the preference            *)
(***************************************************************************)

\* C32: a call that meets no exception returns the plan that
\* smart_select_best_option gives for the video with the call's own
\* prefer_progressive, also when the plan of an earlier call with the other
\* value is still cached.
C32_PlanFollowsOwnPreference ==
    (fast.calls > 0 /\ fast.raised = "none")
      => LET own == smart_select_best_option(asset.progressive, asset.video,
                                             asset.audio, fast.prefer_progressive)
         IN  IF own = NoneRecord THEN fast.result = NoneRecord
             ELSE /\ fast.result # NoneRecord
                  /\ fast.result.type = own.type
                  /\ fast.result.video_stream = own.video_stream
                  /\ fast.result.audio_stream = own.audio_stream

(***************************************************************************)
(* CacheManager: cleanup_expired, capacity and statistics                  *)
(***************************************************************************)

\* a step that is a completed cleanup_expired call
CleanupCall == ret'.op = "cleanup_expired" /\ now' = now /\ tpc' = tpc

\* C33: after cleanup_expired ran at time t no entry of age >= ttl (one that
\* get treats as expired) is left, no entry of age < ttl was removed, and
\* the count returned is the number of entries removed.
C33_CleanupAgreesWithGet ==
    [][CleanupCall
        => /\ \A i \in 1..Len(cache') : now - cache'[i].timestamp < ttl
           /\ \A i \in 1..Len(cache) :
                 now - cache[i].timestamp < ttl => HasKey(cache', cache[i].key)
           /\ ret'.value = Len(cache) - Len(cache')]_vars

\* C34: whatever calls of get, set, delete, clear and cleanup_expired were
\* made, by whichever thread, the dict never holds more than max_size entries.
C34_SizeNeverExceedsCapacity ==
    Len(cache) <= max_size

\* more keys were stored than the cache can hold, and it is full
C34_Witness ==
    /\ Len(cache) = max_size
    /\ stats.stores > max_size /\ stats.evictions > 0
    /\ ret.op = "set" /\ ~HasKey(cache, 1) /\ HasKey(cache, max_size + 1)

\* C35: hits + misses is the number of completed get calls and stores the
\* number of completed set calls, in every state; and no step makes hits,
\* misses, stores or evictions smaller.
C35_StatisticsCountCalls ==
    /\ [](stats.hits + stats.misses = calls.get /\ stats.stores = calls.set)
    /\ [][/\ stats'.hits >= stats.hits
          /\ stats'.misses >= stats.misses
          /\ stats'.stores >= stats.stores
          /\ stats'.evictions >= stats.evictions]_vars

\* the dict was cleared after a get, an overwrite-free run of sets and an
\* eviction: the counters still stand
C35_Witness ==
    /\ ret.op = "clear" /\ cache = <<>>
    /\ calls.get = 1 /\ stats.hits + stats.misses = 1
    /\ stats.stores = max_size + 1 /\ stats.evictions > 0

\* C36: when a set evicts an entry that is still live (age < ttl), no
\* entry that has expired (age >= ttl) is in the cache at that moment.
C36_NoLiveEvictionBeforeExpired ==
    [][\A k \in Keys :
        (/\ SetCall(k) /\ stats'.evictions = stats.evictions + 1
         /\ Age(cache, ret'.log[1].key, now) < ttl)
          => \A i \in 1..Len(cache) : now - cache[i].timestamp < ttl]_vars

\* a live entry was evicted: time has passed, but less than ttl, since the
\* first entry was stored, and an entry stored later stays
C36_Witness ==
    /\ ret.op = "set" /\ ret.log[1].ev = "EVICTED"
    /\ 0 < now /\ now < ttl
    /\ \E i \in 1..Len(cache) : cache[i].timestamp = 0 /\ cache[i].key # ret.log[1].key
    /\ \E i \in 1..Len(cache) : cache[i].timestamp = now

(***************************************************************************)
(* Quality scores: tiers against bonuses                                   *)
(***************************************************************************)

\* the number a stream is binned by, 0 when the field is missing
BinnedBy(stream) ==
    IF stream.type = "audio"
    THEN (IF stream.abr = None THEN 0 ELSE stream.abr[1])
    ELSE (IF stream.resolution = None THEN 0 ELSE stream.resolution[1])

\* C37: of two audio streams the one in the higher bitrate tier, and of two
\* video streams the one in the higher resolution tier, has the strictly
\* higher score, whatever their codecs and frame rates are (the streams
\* below the lowest threshold form the lowest tier).
C37_BonusesNeverReorderTiers ==
    scores.done
      => LET tiers == IF subject.kind = "audio" THEN AudioTiers ELSE VideoTiers
         IN  TierOf(BinnedBy(subject.a), tiers) < TierOf(BinnedBy(subject.b), tiers)
               => scores.a < scores.b

(***************************************************************************)
(* The workspace in the end                                                *)
(***************************************************************************)

\* C38: every workspace a download handler created is removed in the end,
\* also when the response is returned and the client never starts, or does
\* not finish, reading its body.
C38_WorkspaceRemovedInTheEnd ==
    ws.exists ~> ~ws.exists

(***************************************************************************)
(* contact_endpoint: the claims                                            *)
(***************************************************************************)

\* the submissions of ip accepted in the window_seconds that end at time t
AcceptedWithin(ip, t) ==
    {i \in 1..Len(contact.accepted[ip]) :
        contact.accepted[ip][i] <= t /\ t - contact.accepted[ip][i] < window_seconds}

\* C39: for each client IP, at most max_requests accepted submissions lie in
\* any window of window_seconds; and a submission refused with 429 leaves
\* the recorded timestamps as they were.
C39_RateLimitPerWindow ==
    /\ [](\A ip \in ClientIPs : \A t \in 0..MaxClock :
            Cardinality(AcceptedWithin(ip, t)) <= max_requests)
    /\ [][(contact'.submits = contact.submits + 1 /\ contact'.code = 429)
            => limiter' = limiter]_vars

\* a client that was refused with 429 is accepted again as soon as its
\* earlier submissions have left the window
C39_Witness ==
    /\ contact.code = 200 /\ contact.ip = "ip1"
    /\ Len(contact.accepted["ip1"]) = max_requests + 1
    /\ contact.accepted["ip1"][max_requests + 1] = window_seconds
    /\ contact.submits = max_requests + 2 /\ contact.refused = 1

=============================================================================
